---- MODULE Spec2Model ----
(***************************************************************************)
(* Pagination engine of pytok: User.videos, Video.comments and             *)
(* Video.related_videos with their direct (make_request) tier and their    *)
(* scraping / scroll tier, over the interceptor buffer                     *)
(* (_collected_responses) drained by process_pending_responses.            *)
(*                                                                         *)
(* One behaviour is one call of one public accessor.  A generator is       *)
(* modelled at its suspension points: one action per awaited request and   *)
(* one per yield, each running the code up to the next suspension point.   *)
(***************************************************************************)
EXTENDS Integers, Sequences, FiniteSets, TLC

(*************************** bounds of the model ***************************)
MaxItems == 5
MaxPageSize == 2
MaxCount == 3
MaxLoads == 2
MaxVerifies == 2
MaxArrivals == 3
MaxHeld == 2
MaxPolls == 2
MaxRevs == 2
MaxInfoCalls == 3
MaxIdle == 1
MaxJunk == 2
MaxRequests == 3
MaxTotal == 2
MaxColumn == 3

(**************************** program constants ****************************)
ApiPageSize == 35
DocCount == 100
StatusLogin == 10101
StatusPrivate == 10222
max_scroll_attempts == 30
NoNewVideosLimit == 5
ScrollTriesLimit == 5
max_tries == 10
slide_bar_width == 340
slide_button_width == 69
resolution == 300

None == 0 - 1

(******************************* the server ********************************)
\* A server is [n, p, lastMore]: n records 1..n in server order, served p to
\* a page; the cursor of a page is its index (0 for the first page) and a
\* response reports the cursor of the next page.  lastMore is the has-more
\* signal of the last non-empty page (a server may keep signalling more).
Range(a, b) == [i \in 1..(b - a + 1) |-> a + i - 1]

Min(a, b) == IF a < b THEN a ELSE b

NumPages(srv) == (srv.n + srv.p - 1) \div srv.p

Page(items, more, cur) ==
    [type |-> "page", status |-> 0, items |-> items, hasMore |-> more, cursor |-> cur]

PageAt(srv, c) ==
    IF c * srv.p >= srv.n
    THEN Page(<<>>, FALSE, c)
    ELSE Page(Range(c * srv.p + 1, Min((c + 1) * srv.p, srv.n)),
              IF (c + 1) * srv.p < srv.n THEN TRUE ELSE srv.lastMore,
              c + 1)

Verify == [type |-> "verify", status |-> 0, items |-> <<>>, hasMore |-> FALSE, cursor |-> 0]

Garbage == [type |-> "garbage", status |-> 0, items |-> <<>>, hasMore |-> FALSE, cursor |-> 0]

StatusBody(code) ==
    [type |-> "page", status |-> code, items |-> <<>>, hasMore |-> FALSE, cursor |-> 0]

NoRes == Page(<<>>, FALSE, 0)

AllRecords(srv) == Range(1, srv.n)

SmallServers ==
    {[n |-> n, p |-> p, lastMore |-> m] :
        n \in 0..MaxItems, p \in 1..MaxPageSize, m \in BOOLEAN}

\* The account of the docstring example: three full pages and a page of 5.
TheRock == [n |-> 3 * ApiPageSize + 5, p |-> ApiPageSize, lastMore |-> FALSE]

(************************** sequences of records ***************************)
RECURSIVE Concat(_)
Concat(pages) ==
    IF pages = <<>> THEN <<>> ELSE Head(pages).items \o Concat(Tail(pages))

RECURSIVE IsSubseq(_, _)
IsSubseq(s, t) ==
    IF s = <<>> THEN TRUE
    ELSE IF t = <<>> THEN FALSE
    ELSE IF Head(s) = Head(t) THEN IsSubseq(Tail(s), Tail(t))
    ELSE IsSubseq(s, Tail(t))

IsPrefix(s, t) == Len(s) <= Len(t) /\ SubSeq(t, 1, Len(s)) = s

NoDuplicates(s) == \A i, j \in 1..Len(s) : i # j => s[i] # s[j]

ToSet(s) == {s[i] : i \in 1..Len(s)}

(********************** the interceptor's buffer ***************************)
\* A buffered event: kind stands for the endpoint in its URL, own says
\* whether the URL carries this entity's secUid / itemID, url identifies the
\* URL (its cursor parameter) and body is the decoded body.
Event(kind, own, body) == [kind |-> kind, own |-> own, url |-> body.cursor, body |-> body]

\* PyTok.process_pending_responses: pattern "" stands for url_pattern=None,
\* which matches every event.
Matches(pattern, ev) == IF pattern = "" THEN TRUE ELSE ev.kind = pattern

\* Mutant: only the events that carry the caller's own secUid are returned.
DrainResults_OwnOnly(buf, pattern) ==
    SelectSeq(buf, LAMBDA ev : IF Matches(pattern, ev) THEN ev.own ELSE FALSE)

DrainResults(buf, pattern) == SelectSeq(buf, LAMBDA ev : Matches(pattern, ev))

\* Mutant: the events returned are not removed from the buffer.
DrainRemaining_KeepsAll(buf, pattern) == buf

\* Mutant: the drain empties the buffer.
DrainRemaining_Clears(buf, pattern) == <<>>

DrainRemaining(buf, pattern) == SelectSeq(buf, LAMBDA ev : ~Matches(pattern, ev))

VARIABLES
    call,            \* the public accessor called: "videos", "comments", "related"
    count,           \* its count argument (None: no limit)
    server,          \* the collection the server holds
    loggedIn,        \* PyTok._is_logged_in(): a session cookie is present
    usedApi,         \* User._used_api_for_info
    asDictEmpty,     \* User.as_dict reports videoCount == 0
    canNavigate,     \* Video: (id and username) or as_dict
    collected,       \* PyTok._collected_responses
    requestCache,    \* keys present in PyTok.request_cache
    browserCursor,   \* the next page the live page loads when scrolled
    browserLoads,    \* how many pages the live page loads per scroll
    pc,              \* position of the call
    cursor,          \* local cursor of the running tier
    res,             \* the response being iterated / the list being yielded
    idx,             \* number of records of res already yielded
    amountYielded,   \* local amount_yielded of the running generator
    remaining,       \* User.videos: remaining
    seenIds,         \* seen_ids / comment_ids
    processedUrls,   \* processed_urls
    scroll,          \* locals of the scroll loops
    out,             \* everything yielded to the caller, in order
    err,             \* the exception that reached the caller ("none")
    tier,            \* the generator now running
    tierOut,         \* what the running tier has yielded
    tierPages,       \* the responses the running tier has processed
    requests,        \* direct requests issued: [cursor, outcome]
    initial,         \* what _get_initial_videos returned
    scrapingTried,   \* the scraping tier has been entered
    replayVerifies,  \* _get_api_comments: 'verify' answers met by the while loop
    pendingRequests, \* PyTok._pending_requests: request ids waiting for their body
    fetchTasks,      \* scheduled _fetch_response_body tasks
    results,         \* what the last process_pending_responses returned
    lastOp,          \* the interceptor step taken last, with the state it met
    arrivals,        \* network responses received so far (the last request id)
    draining,        \* the process_pending_responses call asleep before selecting
    page,            \* what the live page shows to the classification
    wait,            \* locals of the running page-state classification
    user,            \* the User objects on which info_full runs
    video,           \* a Video object and its info() calls
    login,           \* the running PyTok.login call
    legacy,          \* the running TikTokApi User.videos call
    search,          \* the running Search.search_type call
    hashtag,         \* the running Hashtag.videos call
    replies,         \* the running fetch of one comment's replies
    drag,            \* the running Base.solve_captcha call
    finished         \* ids of the responses being fetched or buffered, in the order
                     \* of their loading-finished events

vars == <<call, count, server, loggedIn, usedApi, asDictEmpty, canNavigate,
          collected, requestCache, browserCursor, browserLoads, pc, cursor,
          res, idx, amountYielded, remaining, seenIds, processedUrls, scroll, out, err,
          tier, tierOut, tierPages, requests, initial, scrapingTried,
          replayVerifies, pendingRequests, fetchTasks, results, lastOp, arrivals,
          draining, page, wait, user, video, login, legacy, search, hashtag,
          replies, drag, finished>>

config == <<call, count, server, loggedIn, usedApi, asDictEmpty, canNavigate>>

interceptor == <<pendingRequests, fetchTasks, results, lastOp, arrivals, draining>>

pageWait == <<page, wait>>

entities == <<user, video, login, legacy>>

others == <<search, hashtag, replies, drag, finished>>

NoOp == [op |-> "none"]

NotDraining == [asleep |-> FALSE, pattern |-> ""]

NoPage == [shape |-> "none"]

NoWait == [pc |-> "idle"]

\* An entity variable of a session that does not use it.
NoEntity == [pc |-> "idle"]

NoEntities ==
    /\ user = NoEntity
    /\ video = NoEntity
    /\ login = NoEntity
    /\ legacy = NoEntity

NoOthers ==
    /\ search = NoEntity
    /\ hashtag = NoEntity
    /\ replies = NoEntity
    /\ drag = NoEntity
    /\ finished = <<>>

NoScroll == [attempts |-> 0, noNew |-> 0, last |-> 0, hasMore |-> TRUE, tries |-> 0]

NoInitial == [got |-> FALSE, videos |-> <<>>, cursor |-> 0]

Counts == {None} \cup (0..MaxCount)

\* What the interceptor may hold when User.videos is called after the
\* profile page was loaded by _info_full_scrape.
InitialBuffers(srv) ==
    { <<>>,
      <<Event("item_list", TRUE, PageAt(srv, 0))>>,
      <<Event("item_list", FALSE, PageAt(srv, 0))>>,
      <<Event("other", TRUE, PageAt(srv, 0)), Event("item_list", TRUE, PageAt(srv, 0))>>,
      <<Event("item_list", TRUE, PageAt(srv, 0)), Event("item_list", TRUE, PageAt(srv, 1))>>,
      <<Event("item_list", TRUE, Garbage)>>,
      <<Event("item_list", TRUE, StatusBody(StatusLogin))>>,
      <<Event("item_list", TRUE, StatusBody(StatusPrivate))>> }

Init ==
    /\ call \in {"videos", "comments", "related"}
    /\ server \in IF call = "videos" THEN SmallServers \cup {TheRock} ELSE SmallServers
    /\ count \in IF server = TheRock THEN {DocCount}
                 ELSE IF call = "videos" THEN Counts ELSE 0..MaxCount
    /\ loggedIn \in IF call = "videos" THEN BOOLEAN ELSE {FALSE}
    /\ usedApi \in IF call = "videos" THEN BOOLEAN ELSE {FALSE}
    /\ asDictEmpty \in IF call = "videos" /\ server.n = 0 THEN BOOLEAN ELSE {FALSE}
    /\ canNavigate \in IF call = "comments" THEN BOOLEAN ELSE {TRUE}
    /\ collected \in IF call = "videos" /\ ~usedApi THEN InitialBuffers(server) ELSE {<<>>}
    /\ requestCache = {}
    /\ browserCursor = 0
    /\ browserLoads = 0
    /\ pc = "start"
    /\ cursor = 0
    /\ res = NoRes
    /\ idx = 0
    /\ amountYielded = 0
    /\ remaining = None
    /\ seenIds = {}
    /\ processedUrls = {}
    /\ scroll = NoScroll
    /\ out = <<>>
    /\ err = "none"
    /\ tier = "none"
    /\ tierOut = <<>>
    /\ tierPages = <<>>
    /\ requests = <<>>
    /\ initial = NoInitial
    /\ scrapingTried = FALSE
    /\ replayVerifies = 0
    /\ pendingRequests = {}
    /\ fetchTasks = {}
    /\ results = <<>>
    /\ lastOp = NoOp
    /\ arrivals = 0
    /\ draining = NotDraining
    /\ page = NoPage
    /\ wait = NoWait
    /\ NoEntities
    /\ NoOthers

(************************ page-embedded JSON (HTML) ************************)
\* What extract_tag_contents finds in the page: no data script tag at all,
\* the __DEFAULT_SCOPE__ shape with its webapp.user-post object, the older
\* ItemModule shape, or a tag with neither.
Htmls(srv) ==
    { [shape |-> "notag", post |-> NoRes],
      [shape |-> "other", post |-> NoRes],
      [shape |-> "scope", post |-> PageAt(srv, 0)],
      [shape |-> "scope", post |-> StatusBody(StatusLogin)],
      [shape |-> "scope", post |-> StatusBody(StatusPrivate)],
      [shape |-> "itemmodule", post |-> PageAt(srv, 0)] }

(****************************** User.videos ********************************)
Truthy(c) == c # None /\ c # 0

\* Entering a while loop "count is None or amount_yielded < count".
LoopRuns(c, amount) == IF c = None THEN TRUE ELSE amount < c

\* _get_initial_videos, the loop over video_responses (user.py 464-495).
InitialStep(acc, ev) ==
    IF acc.exc # "none" THEN acc
    ELSE IF ev.body.type = "garbage" THEN acc
    ELSE IF ev.body.status # 0
         THEN IF ev.body.status = StatusLogin
              THEN IF loggedIn THEN acc ELSE [acc EXCEPT !.exc = "Login"]
              ELSE [acc EXCEPT !.exc = "NoContent"]
    ELSE [videos |-> acc.videos \o ev.body.items,
          finished |-> ~ev.body.hasMore,
          cursor |-> ev.body.cursor,
          exc |-> "none"]

RECURSIVE InitialFold(_, _)
InitialFold(acc, resps) ==
    IF resps = <<>> THEN acc
    ELSE InitialFold(InitialStep(acc, Head(resps)), Tail(resps))

\* _get_initial_videos when no response was buffered (user.py 497-513).
InitialNoResponses(html) ==
    IF html.shape = "notag" THEN "NotAvailable"
    ELSE IF html.shape = "scope" /\ html.post.status = StatusLogin /\ ~loggedIn
    THEN "Login"
    ELSE "ApiFailed"

GetInitialVideos(buf, html) ==
    LET video_responses == SelectSeq(DrainResults(buf, "item_list"), LAMBDA ev : ev.own)
        acc == InitialFold([videos |-> <<>>, finished |-> FALSE, cursor |-> 0,
                            exc |-> "none"], video_responses)
    IN  IF acc.exc # "none" THEN acc
        ELSE IF Len(video_responses) = 0
        THEN [acc EXCEPT !.exc = InitialNoResponses(html)]
        ELSE acc

\* The cursor User.videos hands to _get_videos_api (user.py 246).
FirstApiCursor(initialCursor) == 0

\* remaining = None if count is None else count - amount_yielded (user.py 244).
Remaining(c, amount) == IF c = None THEN None ELSE c - amount

Finish(e) ==
    /\ pc' = "done"
    /\ err' = e

\* User.videos entering _get_videos_api (user.py 244-246, 254-259).
EnterVideosApi(rem, initialCursor) ==
    /\ remaining' = rem
    /\ cursor' = FirstApiCursor(initialCursor)
    /\ amountYielded' = 0
    /\ tier' = "videos_api"
    /\ tierOut' = <<>>
    /\ tierPages' = <<>>
    /\ pc' = IF LoopRuns(rem, 0) THEN "videos_api_request" ELSE "done"
    /\ err' = "none"

\* User.videos up to its first suspension point (user.py 220-246).
Videos_Start ==
    /\ pc = "start"
    /\ call = "videos"
    /\ \E html \in Htmls(server) :
        IF asDictEmpty
        THEN /\ Finish("none")
             /\ UNCHANGED <<collected, requestCache, res, idx, amountYielded, remaining,
                            cursor, tier, tierOut, tierPages, initial>>
        ELSE IF usedApi
        THEN /\ EnterVideosApi(count, 0)
             /\ UNCHANGED <<collected, requestCache, res, idx, initial>>
        ELSE LET got == GetInitialVideos(collected, html) IN
             /\ collected' = DrainRemaining(collected, "item_list")
             /\ IF got.exc # "none"
                THEN /\ Finish(got.exc)
                     /\ UNCHANGED <<requestCache, res, idx, amountYielded, remaining,
                                    cursor, tier, tierOut, tierPages, initial>>
                ELSE /\ requestCache' = requestCache \cup {"videos"}
                     /\ initial' = [got |-> TRUE, videos |-> got.videos, cursor |-> got.cursor]
                     /\ res' = Page(got.videos, ~got.finished, got.cursor)
                     /\ idx' = 0
                     /\ IF got.videos # <<>>
                        THEN /\ pc' = "initial_yield"
                             /\ err' = "none"
                             /\ tier' = "initial"
                             /\ UNCHANGED <<amountYielded, remaining, cursor, tierOut, tierPages>>
                        ELSE IF got.finished
                        THEN /\ Finish("none")
                             /\ UNCHANGED <<amountYielded, remaining, cursor, tier,
                                            tierOut, tierPages>>
                        ELSE EnterVideosApi(Remaining(count, 0), got.cursor)
    /\ UNCHANGED <<config, interceptor, pageWait, entities, others, replayVerifies,
                   browserCursor, browserLoads, seenIds, processedUrls, scroll, out,
                   requests, scrapingTried>>

\* One "yield video" of the initial page and the code after it (user.py 231-246).
Videos_InitialYield ==
    /\ pc = "initial_yield"
    /\ out' = Append(out, res.items[idx + 1])
    /\ idx' = idx + 1
    /\ IF Truthy(count) /\ amountYielded + 1 >= count
       THEN /\ Finish("none")
            /\ amountYielded' = amountYielded + 1
            /\ UNCHANGED <<remaining, cursor, tier, tierOut, tierPages>>
       ELSE IF idx + 1 < Len(res.items)
       THEN /\ amountYielded' = amountYielded + 1
            /\ UNCHANGED <<pc, err, remaining, cursor, tier, tierOut, tierPages>>
       ELSE IF ~res.hasMore
       THEN /\ Finish("none")
            /\ amountYielded' = amountYielded + 1
            /\ UNCHANGED <<remaining, cursor, tier, tierOut, tierPages>>
       ELSE EnterVideosApi(Remaining(count, amountYielded + 1), initial.cursor)
    /\ UNCHANGED <<config, interceptor, pageWait, entities, others, replayVerifies,
                   collected, requestCache, browserCursor, browserLoads, res, seenIds,
                   processedUrls, scroll, requests, initial, scrapingTried>>

(************************ User._get_videos_api *****************************)
\* What make_request may answer: a page, an exception, None, a body of type
\* 'verify', a login-required status, another non-zero status.
ApiOutcomes == {"ok", "raise", "none", "verify", "login", "status"}

\* Mutant: a body of type 'verify' passes the checks and is read as a page.
VideosApiCheck_VerifyIsPage(o) ==
    CASE o = "raise" -> "ApiFailed"
      [] o = "none" -> "AttributeError"
      [] o = "login" -> IF loggedIn THEN "ApiFailed" ELSE "Login"
      [] o = "status" -> "NoContent"
      [] OTHER -> "none"

\* The exception _get_videos_api ends with for an answer (user.py 269-300);
\* None reaches res.get in the debug line before the None test.
VideosApiCheck(o) ==
    CASE o = "raise" -> "ApiFailed"
      [] o = "none" -> "AttributeError"
      [] o = "verify" -> "ApiFailed"
      [] o = "login" -> IF loggedIn THEN "ApiFailed" ELSE "Login"
      [] o = "status" -> "NoContent"
      [] OTHER -> "none"

\* Mutant: the return inside the page loop is missing, so a page is always
\* yielded whole.
CountReached_PageGranular(c, amount) == FALSE

\* Mutant: the count test is off by one.
CountReached_OffByOne(c, amount) == c # None /\ amount > c

\* "if count is not None and amount_yielded >= count: return" (user.py 307).
CountReached(c, amount) == c # None /\ amount >= c

\* Mutant: the next page is requested while one record of the page is still
\* to be yielded.
MoreInPage_Prefetch(i, r) == i + 1 < Len(r.items)

\* "for video in videos" (user.py 304): records of the page are still to be
\* yielded after i of them.
MoreInPage(i, r) == i < Len(r.items)

\* After the for loop over a page (user.py 310-318): where the loop goes.
VideosPageEnd(r, c, amount) ==
    IF ~r.hasMore THEN "done"
    ELSE IF LoopRuns(c, amount) THEN "videos_api_request"
    ELSE "done"

\* Mutant: no except clause, every exception of the direct tier reaches the
\* caller.
VideosOnError_Raise(e) == Finish(e)

\* User.videos: "except ApiFailedException" around _get_videos_api
\* (user.py 245-251); any other exception reaches the caller.
VideosOnError(e) ==
    IF e = "ApiFailed"
    THEN /\ pc' = "videos_scrape_load"
         /\ err' = "none"
    ELSE Finish(e)

\* One make_request of _get_videos_api and the code up to the next
\* suspension point (user.py 259-318).
VideosApi_Request ==
    /\ pc = "videos_api_request"
    /\ \E o \in ApiOutcomes :
        LET e == VideosApiCheck(o)
            r == PageAt(server, cursor)
        IN  /\ requests' = Append(requests, [cursor |-> cursor, outcome |-> o])
            /\ IF e # "none"
               THEN /\ VideosOnError(e)
                    /\ UNCHANGED <<res, idx, cursor, tierPages>>
               ELSE /\ res' = r
                    /\ idx' = 0
                    /\ tierPages' = Append(tierPages, r)
                    /\ err' = "none"
                    /\ pc' = IF r.items # <<>> THEN "videos_api_yield"
                             ELSE VideosPageEnd(r, remaining, amountYielded)
                    /\ cursor' = IF r.items = <<>> /\ r.hasMore THEN r.cursor ELSE cursor
    /\ UNCHANGED <<config, interceptor, pageWait, entities, others, replayVerifies,
                   collected, requestCache, browserCursor, browserLoads, amountYielded,
                   remaining, seenIds, processedUrls, scroll, out, tier, tierOut,
                   initial, scrapingTried>>

\* One "yield" of _get_videos_api and the code after it (user.py 304-318).
VideosApi_Yield ==
    /\ pc = "videos_api_yield"
    /\ out' = Append(out, res.items[idx + 1])
    /\ tierOut' = Append(tierOut, res.items[idx + 1])
    /\ idx' = idx + 1
    /\ amountYielded' = amountYielded + 1
    /\ err' = "none"
    /\ IF CountReached(remaining, amountYielded + 1)
       THEN /\ pc' = "done"
            /\ cursor' = cursor
       ELSE IF MoreInPage(idx + 1, res)
       THEN /\ pc' = "videos_api_yield"
            /\ cursor' = cursor
       ELSE /\ pc' = VideosPageEnd(res, remaining, amountYielded + 1)
            /\ cursor' = IF res.hasMore THEN res.cursor ELSE cursor
    /\ UNCHANGED <<config, interceptor, pageWait, entities, others, replayVerifies,
                   collected, requestCache, browserCursor, browserLoads, res, remaining,
                   seenIds, processedUrls, scroll, tier, tierPages, requests, initial,
                   scrapingTried>>

(********************** User._get_videos_scraping **************************)
\* The page states wait_for_content_or_unavailable_or_captcha meets after a
\* navigation, and the exception it ends with (base.py 139-213).
PageStates == {"content", "captcha_solved", "captcha_stuck", "unavailable", "empty", "hidden"}

Classify(state, noContentText) ==
    CASE state = "captcha_stuck" -> "Captcha"
      [] state = "unavailable" -> "NotAvailable"
      [] state = "empty" /\ noContentText -> "NoContent"
      [] OTHER -> "none"

\* "if video_id and video_id not in seen_ids" over item_list (user.py 372-377).
RECURSIVE Dedupe(_, _)
Dedupe(items, seen) ==
    IF items = <<>> THEN <<>>
    ELSE IF Head(items) \in seen THEN Dedupe(Tail(items), seen)
    ELSE <<Head(items)>> \o Dedupe(Tail(items), seen \cup {Head(items)})

\* Reading the embedded page in _get_videos_scraping (user.py 348-385):
\* the exception, or the initial videos and has_more.
ScrapeHtml(html) ==
    IF html.shape = "notag"
    THEN [exc |-> "NotAvailable", videos |-> <<>>, hasMore |-> TRUE]
    ELSE IF html.shape = "scope"
    THEN IF html.post.status # 0
         THEN [exc |-> IF html.post.status = StatusLogin
                       THEN IF loggedIn THEN "ApiFailed" ELSE "Login"
                       ELSE "NoContent",
               videos |-> <<>>, hasMore |-> TRUE]
         ELSE [exc |-> "none", videos |-> Dedupe(html.post.items, {}),
               hasMore |-> html.post.hasMore]
    ELSE IF html.shape = "itemmodule"
    THEN [exc |-> "none", videos |-> Dedupe(html.post.items, {}), hasMore |-> TRUE]
    ELSE [exc |-> "none", videos |-> <<>>, hasMore |-> TRUE]

\* Entering _get_videos_scroll(count, seen_ids, yielded) (user.py 518-530).
EnterVideosScroll(yielded) ==
    /\ scroll' = [attempts |-> 0, noNew |-> 0, last |-> yielded, hasMore |-> TRUE,
                  tries |-> 0]
    /\ tier' = "videos_scroll"
    /\ tierOut' = <<>>
    /\ tierPages' = <<>>
    /\ pc' = "videos_scroll"

\* _get_videos_scraping up to its first yield (user.py 321-402): navigation,
\* drain of the whole buffer, page classification, embedded first page.
VideosScraping_Load ==
    /\ pc = "videos_scrape_load"
    /\ scrapingTried' = TRUE
    /\ collected' = DrainRemaining(collected, "")
    /\ \E state \in PageStates, html \in Htmls(server) :
        LET e == Classify(state, TRUE)
            h == ScrapeHtml(html)
            scrolls == e = "none" /\ h.exc = "none" /\ h.hasMore
        IN  /\ browserCursor' \in IF scrolls /\ html.shape \in {"scope", "itemmodule"}
                                  THEN {0, 1} ELSE {0}
            /\ browserLoads' \in IF scrolls THEN 0..MaxLoads ELSE {0}
            /\ IF e # "none"
               THEN /\ Finish(e)
                    /\ UNCHANGED <<res, idx, amountYielded, seenIds, scroll, tier,
                                   tierOut, tierPages>>
               ELSE IF h.exc # "none"
               THEN /\ Finish(h.exc)
                    /\ UNCHANGED <<res, idx, amountYielded, seenIds, scroll, tier,
                                   tierOut, tierPages>>
               ELSE /\ res' = Page(h.videos, h.hasMore, 0)
                    /\ idx' = 0
                    /\ amountYielded' = 0
                    /\ seenIds' = ToSet(h.videos)
                    /\ err' = "none"
                    /\ IF h.videos # <<>>
                       THEN /\ pc' = "videos_scrape_yield"
                            /\ tier' = "videos_scraping"
                            /\ tierOut' = <<>>
                            /\ tierPages' = <<>>
                            /\ UNCHANGED scroll
                       ELSE IF ~h.hasMore
                       THEN /\ pc' = "done"
                            /\ UNCHANGED <<scroll, tier, tierOut, tierPages>>
                       ELSE EnterVideosScroll(0)
    /\ UNCHANGED <<config, interceptor, pageWait, entities, others, replayVerifies,
                   requestCache, cursor, remaining, processedUrls, out,
                   requests, initial>>

\* One yield of the embedded videos and the code after it (user.py 389-402).
VideosScraping_Yield ==
    /\ pc = "videos_scrape_yield"
    /\ out' = Append(out, res.items[idx + 1])
    /\ idx' = idx + 1
    /\ amountYielded' = amountYielded + 1
    /\ IF Truthy(remaining) /\ amountYielded + 1 >= remaining
       THEN /\ pc' = "done"
            /\ UNCHANGED <<scroll, tier, tierOut, tierPages>>
       ELSE IF idx + 1 < Len(res.items)
       THEN /\ pc' = "videos_scrape_yield"
            /\ UNCHANGED <<scroll, tier, tierOut, tierPages>>
       ELSE IF ~res.hasMore
       THEN /\ pc' = "done"
            /\ UNCHANGED <<scroll, tier, tierOut, tierPages>>
       ELSE EnterVideosScroll(amountYielded + 1)
    /\ UNCHANGED <<config, interceptor, pageWait, entities, others, replayVerifies,
                   collected, requestCache, browserCursor, browserLoads, cursor, res,
                   remaining, seenIds, processedUrls, err, requests, initial,
                   scrapingTried>>

(************************ User._get_videos_scroll **************************)
\* The events a scroll adds to the buffer: the next k pages of the collection
\* that exist, in the order the page loads them.  Within one call the live
\* page loads the same number of pages (browserLoads, at most MaxLoads) on
\* every scroll until the collection is exhausted.
RECURSIVE Loaded(_, _, _, _)
Loaded(srv, c, k, kind) ==
    IF k = 0 THEN <<>>
    ELSE IF c * srv.p >= srv.n THEN <<>>
    ELSE <<Event(kind, TRUE, PageAt(srv, c))>> \o Loaded(srv, c + 1, k - 1, kind)

\* The inner loop "for item in item_list" with its dedup and its return when
\* the count is reached (user.py 549-557).
RECURSIVE ScrollItems(_, _, _)
ScrollItems(acc, items, c) ==
    IF items = <<>> THEN acc
    ELSE IF Head(items) \in acc.seen THEN ScrollItems(acc, Tail(items), c)
    ELSE LET a == [acc EXCEPT !.seen = @ \cup {Head(items)},
                              !.amount = @ + 1,
                              !.yielded = Append(@, Head(items))]
         IN  IF Truthy(c) /\ a.amount >= c
             THEN [a EXCEPT !.returned = TRUE]
             ELSE ScrollItems(a, Tail(items), c)

\* One response of "for resp in video_responses" (user.py 541-561).
ScrollStep(acc, ev, c) ==
    IF acc.returned THEN acc
    ELSE IF ev.body.type = "garbage" THEN acc
    ELSE LET a == ScrollItems([acc EXCEPT !.pages = Append(@, ev.body)],
                              ev.body.items, c)
         IN  IF a.returned THEN a ELSE [a EXCEPT !.hasMore = ev.body.hasMore]

RECURSIVE ScrollFold(_, _, _)
ScrollFold(acc, resps, c) ==
    IF resps = <<>> THEN acc
    ELSE ScrollFold(ScrollStep(acc, Head(resps), c), Tail(resps), c)

\* Mutant: the loop test without "scroll_attempts < max_scroll_attempts".
ScrollRoundEnd_NoAttemptsCap(sc, amount, hasMore) ==
    LET noNew == IF amount = sc.last THEN sc.noNew + 1 ELSE 0
        stop == amount = sc.last /\ noNew >= NoNewVideosLimit
        attempts == IF stop THEN sc.attempts ELSE sc.attempts + 1
    IN  [locals |-> [attempts |-> attempts, noNew |-> noNew,
                     last |-> IF stop THEN sc.last ELSE amount,
                     hasMore |-> hasMore, tries |-> sc.tries],
         goOn |-> ~stop /\ hasMore]

\* The bookkeeping at the end of a scroll round (user.py 563-573) and the
\* loop test (user.py 530): the locals after the round and whether the
\* loop goes on.
ScrollRoundEnd(sc, amount, hasMore) ==
    LET noNew == IF amount = sc.last THEN sc.noNew + 1 ELSE 0
        stop == amount = sc.last /\ noNew >= NoNewVideosLimit
        attempts == IF stop THEN sc.attempts ELSE sc.attempts + 1
    IN  [locals |-> [attempts |-> attempts, noNew |-> noNew,
                     last |-> IF stop THEN sc.last ELSE amount,
                     hasMore |-> hasMore, tries |-> sc.tries],
         goOn |-> ~stop /\ attempts < max_scroll_attempts /\ hasMore]

\* One round of the while loop of _get_videos_scroll (user.py 530-573): the
\* scroll, the drain and every yield of the round.
VideosScroll_Round ==
    /\ pc = "videos_scroll"
    /\ \E k \in {browserLoads} :
        LET loaded == Loaded(server, browserCursor, k, "item_list")
            buf == collected \o loaded
            acc == ScrollFold([seen |-> seenIds, amount |-> amountYielded,
                               yielded |-> <<>>, pages |-> <<>>,
                               hasMore |-> scroll.hasMore, returned |-> FALSE],
                              DrainResults(buf, "item_list"), remaining)
            end == ScrollRoundEnd(scroll, acc.amount, acc.hasMore)
        IN  /\ browserCursor' = browserCursor + Len(loaded)
            /\ collected' = DrainRemaining(buf, "item_list")
            /\ seenIds' = acc.seen
            /\ amountYielded' = acc.amount
            /\ out' = out \o acc.yielded
            /\ tierOut' = tierOut \o acc.yielded
            /\ tierPages' = tierPages \o acc.pages
            /\ IF acc.returned
               THEN /\ pc' = "done"
                    /\ scroll' = scroll
               ELSE /\ scroll' = end.locals
                    /\ pc' = IF end.goOn THEN "videos_scroll" ELSE "done"
    /\ UNCHANGED <<config, interceptor, pageWait, entities, others, replayVerifies,
                   requestCache, browserLoads, cursor, res, idx, remaining,
                   processedUrls, err, tier, requests, initial, scrapingTried>>

(***************************** Video.comments ******************************)
\* The exception _comments_api ends with for an answer (video.py 517-537).
CommentsApiCheck(o) ==
    IF o = "ok" THEN "none" ELSE "ApiFailed"

\* Mutant: the has_more signal is ignored and the loop goes on while the
\* count is not reached.
CommentsPageEnd_IgnoresHasMore(r, c, amount) ==
    IF LoopRuns(c, amount) THEN "comments_api_request" ELSE "done"

\* After the loop over a page of comments (video.py 555-561).
CommentsPageEnd(r, c, amount) ==
    IF ~r.hasMore THEN "done"
    ELSE IF LoopRuns(c, amount) THEN "comments_api_request"
    ELSE "done"

\* Video.comments: "except ApiFailedException" around _comments_api
\* (video.py 495-501).
CommentsOnError(e) ==
    IF e = "ApiFailed"
    THEN /\ pc' = "comments_scrape_load"
         /\ err' = "none"
    ELSE Finish(e)

\* Video.comments entering _comments_api (video.py 495-509).
Comments_Start ==
    /\ pc = "start"
    /\ call = "comments"
    /\ cursor' = 0
    /\ amountYielded' = 0
    /\ tier' = "comments_api"
    /\ pc' = IF LoopRuns(count, 0) THEN "comments_api_request" ELSE "done"
    /\ UNCHANGED <<config, interceptor, pageWait, entities, others, replayVerifies,
                   collected, requestCache, browserCursor, browserLoads, res,
                   idx, remaining, seenIds, processedUrls, scroll, out, err, tierOut,
                   tierPages, requests, initial, scrapingTried>>

\* One make_request of _comments_api and the code up to the next suspension
\* point (video.py 509-561).
CommentsApi_Request ==
    /\ pc = "comments_api_request"
    /\ \E o \in ApiOutcomes :
        LET e == CommentsApiCheck(o)
            r == PageAt(server, cursor)
        IN  /\ requests' = Append(requests, [cursor |-> cursor, outcome |-> o])
            /\ IF e # "none"
               THEN /\ CommentsOnError(e)
                    /\ UNCHANGED <<res, idx, cursor, tierPages>>
               ELSE /\ res' = r
                    /\ idx' = 0
                    /\ tierPages' = Append(tierPages, r)
                    /\ err' = "none"
                    /\ pc' = IF r.items # <<>> THEN "comments_api_yield"
                             ELSE CommentsPageEnd(r, count, amountYielded)
                    /\ cursor' = IF r.items = <<>> /\ r.hasMore THEN r.cursor ELSE cursor
    /\ UNCHANGED <<config, interceptor, pageWait, entities, others, replayVerifies,
                   collected, requestCache, browserCursor, browserLoads,
                   amountYielded, remaining, seenIds, processedUrls, scroll, out, tier,
                   tierOut, initial, scrapingTried>>

\* One "yield comment" of _comments_api and the code after it
\* (video.py 543-561).
CommentsApi_Yield ==
    /\ pc = "comments_api_yield"
    /\ out' = Append(out, res.items[idx + 1])
    /\ tierOut' = Append(tierOut, res.items[idx + 1])
    /\ idx' = idx + 1
    /\ amountYielded' = amountYielded + 1
    /\ IF CountReached(count, amountYielded + 1)
       THEN /\ pc' = "done"
            /\ cursor' = cursor
       ELSE IF MoreInPage(idx + 1, res)
       THEN /\ pc' = "comments_api_yield"
            /\ cursor' = cursor
       ELSE /\ pc' = CommentsPageEnd(res, count, amountYielded + 1)
            /\ cursor' = IF res.hasMore THEN res.cursor ELSE cursor
    /\ UNCHANGED <<config, interceptor, pageWait, entities, others, replayVerifies,
                   collected, requestCache, browserCursor, browserLoads, res,
                   remaining, seenIds, processedUrls, scroll, err, tier, tierPages,
                   requests, initial, scrapingTried>>

\* Video.view for a page not yet open (video.py 198-217) with
\* wait_for_content_or_unavailable (base.py 54-114).
ViewCheck(state) ==
    CASE state = "unavailable" -> "NotAvailable"
      [] state = "hidden" -> "Timeout"
      [] OTHER -> "none"

\* One response of _get_comments_and_req (video.py 394-427).
CommentsReqStep(acc, ev, c) ==
    IF acc.done THEN acc
    ELSE IF ev.body.type = "garbage" THEN acc
    ELSE LET a == [acc EXCEPT !.cached = TRUE,
                              !.urls = @ \cup {ev.url},
                              !.comments = @ \o ev.body.items,
                              !.amount = @ + Len(ev.body.items)]
         IN  IF a.amount > c THEN [a EXCEPT !.done = TRUE, !.finished = TRUE]
             ELSE IF ~ev.body.hasMore THEN [a EXCEPT !.done = TRUE, !.finished = TRUE]
             ELSE a

RECURSIVE CommentsReqFold(_, _, _)
CommentsReqFold(acc, resps, c) ==
    IF resps = <<>> THEN acc
    ELSE CommentsReqFold(CommentsReqStep(acc, Head(resps), c), Tail(resps), c)

GetCommentsAndReq(buf, c) ==
    CommentsReqFold([cached |-> FALSE, urls |-> {}, comments |-> <<>>, amount |-> 0,
                     done |-> FALSE, finished |-> FALSE],
                    DrainResults(buf, "comment_list"), c)

\* Entering _get_api_comments(count, batch_size, comment_ids)
\* (video.py 727-733); request_cache['comments'] is read unguarded.
EnterCommentsReplay(ids, cached) ==
    /\ seenIds' = ids
    /\ cursor' = 0
    /\ amountYielded' = Cardinality(ids)
    /\ tier' = "comments_replay"
    /\ tierOut' = <<>>
    /\ tierPages' = <<>>
    /\ IF ~cached
       THEN Finish("KeyError")
       ELSE /\ pc' = IF Cardinality(ids) < count THEN "comments_replay_request" ELSE "done"
            /\ err' = "none"

\* _comments_scraping up to its first yield (video.py 607-634): navigation,
\* classification, the buffered comment lists.
CommentsScraping_Load ==
    /\ pc = "comments_scrape_load"
    /\ scrapingTried' = TRUE
    /\ \E state \in PageStates, n \in 0..MaxLoads :
        LET e1 == ViewCheck(state)
            e2 == Classify(state, FALSE)
            ok == canNavigate /\ e1 = "none" /\ e2 = "none"
            loaded == IF ok THEN Loaded(server, 0, n, "comment_list") ELSE <<>>
            got == GetCommentsAndReq(collected \o loaded, count)
        IN  /\ browserCursor' = Len(loaded)
            /\ browserLoads' \in IF ok /\ ~got.finished THEN 0..MaxLoads ELSE {0}
            /\ IF ~ok
               THEN /\ Finish(IF ~canNavigate THEN "ApiFailed"
                              ELSE IF e1 # "none" THEN e1 ELSE e2)
                    /\ UNCHANGED <<collected, requestCache, res, idx, cursor,
                                   amountYielded, seenIds, processedUrls, tier,
                                   tierOut, tierPages>>
               ELSE /\ collected' = DrainRemaining(collected \o loaded, "comment_list")
                    /\ requestCache' = IF got.cached THEN requestCache \cup {"comments"}
                                       ELSE requestCache
                    /\ processedUrls' = got.urls
                    /\ res' = Page(got.comments, ~got.finished, 0)
                    /\ idx' = 0
                    /\ IF got.comments # <<>>
                       THEN /\ pc' = "comments_scrape_yield"
                            /\ err' = "none"
                            /\ tier' = "comments_scraping"
                            /\ tierOut' = <<>>
                            /\ tierPages' = <<>>
                            /\ UNCHANGED <<cursor, amountYielded, seenIds>>
                       ELSE IF got.finished
                       THEN /\ Finish("none")
                            /\ UNCHANGED <<cursor, amountYielded, seenIds, tier,
                                           tierOut, tierPages>>
                       ELSE EnterCommentsReplay({}, got.cached)
    /\ UNCHANGED <<config, interceptor, pageWait, entities, others, replayVerifies,
                   remaining, scroll, out, requests, initial>>

\* One yield of the buffered comments and the code after it
\* (video.py 621-634).
CommentsScraping_Yield ==
    /\ pc = "comments_scrape_yield"
    /\ out' = Append(out, res.items[idx + 1])
    /\ idx' = idx + 1
    /\ IF idx + 1 < Len(res.items)
       THEN UNCHANGED <<pc, err, cursor, amountYielded, seenIds, tier, tierOut, tierPages>>
       ELSE IF ~res.hasMore
       THEN /\ Finish("none")
            /\ UNCHANGED <<cursor, amountYielded, seenIds, tier, tierOut, tierPages>>
       ELSE EnterCommentsReplay(ToSet(res.items), "comments" \in requestCache)
    /\ UNCHANGED <<config, interceptor, pageWait, entities, others, replayVerifies,
                   collected, requestCache, browserCursor, browserLoads, res,
                   remaining, processedUrls, scroll, requests, initial, scrapingTried>>

\* What the replayed request may bring (_get_comments_via_requests,
\* video.py 696-725): a page, a non-200 status, an empty body, an
\* undecodable body, a body of type 'verify'.
ReplayOutcomes == {"ok", "http_error", "empty", "undecodable", "verify"}

\* Mutant: the comments that are not in comment_ids are collected newest
\* first.
NotIn_Reordered(items, ids) ==
    LET fresh == SelectSeq(items, LAMBDA v : v \notin ids)
    IN  [i \in 1..Len(fresh) |-> fresh[Len(fresh) + 1 - i]]

\* "if comment['cid'] not in comment_ids" (video.py 746-753): comment_ids is
\* not extended by what is yielded.
NotIn(items, ids) == SelectSeq(items, LAMBDA v : v \notin ids)

\* Entering _get_scroll_comments(count, amount_yielded, processed_urls)
\* (video.py 639-646); amount_yielded is the number of buffered comments.
EnterCommentsScroll(amount) ==
    /\ amountYielded' = amount
    /\ scroll' = NoScroll
    /\ tier' = "comments_scroll"
    /\ tierOut' = <<>>
    /\ tierPages' = <<>>
    /\ pc' = IF amount < count THEN "comments_scroll" ELSE "done"

\* "if res.get('type') == 'verify'" in _get_api_comments (video.py 737-740):
\* the buffered comment lists are drained by _get_comments_and_req, whose
\* result is dropped, and "continue" goes back to the loop test with cursor
\* and amount_yielded as they were.
ReplayOnVerify(got) ==
    /\ collected' = DrainRemaining(collected, "comment_list")
    /\ requestCache' = IF got.cached THEN requestCache \cup {"comments"} ELSE requestCache
    /\ UNCHANGED <<pc, cursor, amountYielded, scroll, out, tier, tierOut, tierPages>>

\* One round of the while loop of _get_api_comments (video.py 733-766).
CommentsReplay_Request ==
    /\ pc = "comments_replay_request"
    /\ \E o \in ReplayOutcomes :
        LET r == PageAt(server, cursor)
            fresh == NotIn(r.items, seenIds)
            got == GetCommentsAndReq(collected, count)
        IN  IF o = "verify"
            THEN /\ replayVerifies < MaxVerifies
                 /\ replayVerifies' = replayVerifies + 1
                 /\ ReplayOnVerify(got)
            ELSE IF o # "ok"
            THEN /\ EnterCommentsScroll(Len(res.items))
                 /\ UNCHANGED <<collected, requestCache, cursor, out, replayVerifies>>
            ELSE /\ cursor' = r.cursor
                 /\ out' = out \o fresh
                 /\ tierOut' = tierOut \o fresh
                 /\ tierPages' = Append(tierPages, r)
                 /\ amountYielded' = amountYielded + Len(fresh)
                 /\ pc' = IF ~r.hasMore THEN "done"
                          ELSE IF amountYielded + Len(fresh) < count
                          THEN "comments_replay_request"
                          ELSE "done"
                 /\ UNCHANGED <<collected, requestCache, scroll, tier, replayVerifies>>
    /\ UNCHANGED <<config, interceptor, pageWait, entities, others, browserCursor, browserLoads, res, idx,
                   remaining, seenIds, processedUrls, err, requests, initial,
                   scrapingTried>>

\* One response of the for loop of _get_scroll_comments (video.py 663-694).
CommentsScrollStep(acc, ev, c) ==
    IF acc.returned THEN acc
    ELSE IF ev.body.type = "garbage" THEN [acc EXCEPT !.urls = @ \cup {ev.url}]
    ELSE LET a == [acc EXCEPT !.urls = @ \cup {ev.url},
                              !.yielded = @ \o ev.body.items,
                              !.pages = Append(@, ev.body),
                              !.amount = @ + Len(ev.body.items)]
         IN  IF a.amount > c THEN [a EXCEPT !.returned = TRUE]
             ELSE IF ~ev.body.hasMore THEN [a EXCEPT !.returned = TRUE]
             ELSE a

RECURSIVE CommentsScrollFold(_, _, _)
CommentsScrollFold(acc, resps, c) ==
    IF resps = <<>> THEN acc
    ELSE CommentsScrollFold(CommentsScrollStep(acc, Head(resps), c), Tail(resps), c)

\* One round of the while loop of _get_scroll_comments (video.py 646-694).
CommentsScroll_Round ==
    /\ pc = "comments_scroll"
    /\ \E k \in {browserLoads} :
        LET loaded == Loaded(server, browserCursor, k, "comment_list")
            buf == collected \o loaded
            data_responses == SelectSeq(DrainResults(buf, "comment_list"),
                                        LAMBDA ev : ev.url \notin processedUrls)
            gaveUp == Len(data_responses) = 0 /\ scroll.tries > ScrollTriesLimit
            acc == CommentsScrollFold([urls |-> processedUrls, amount |-> amountYielded,
                                       yielded |-> <<>>, pages |-> <<>>,
                                       returned |-> FALSE],
                                      data_responses, count)
        IN  /\ browserCursor' = browserCursor + Len(loaded)
            /\ collected' = DrainRemaining(buf, "comment_list")
            /\ processedUrls' = acc.urls
            /\ amountYielded' = acc.amount
            /\ out' = out \o acc.yielded
            /\ tierOut' = tierOut \o acc.yielded
            /\ tierPages' = tierPages \o acc.pages
            /\ scroll' = IF Len(data_responses) = 0 /\ ~gaveUp
                         THEN [scroll EXCEPT !.tries = @ + 1] ELSE scroll
            /\ pc' = IF gaveUp THEN "done"
                     ELSE IF acc.returned THEN "done"
                     ELSE IF acc.amount < count THEN "comments_scroll"
                     ELSE "done"
    /\ UNCHANGED <<config, interceptor, pageWait, entities, others, replayVerifies,
                   requestCache, browserLoads, cursor, res, idx, remaining,
                   seenIds, err, tier, requests, initial, scrapingTried>>

(************************** Video.related_videos ***************************)
\* Video.related_videos: "except ApiFailedException" around
\* _related_videos_api (video.py 251-257).
RelatedOnError(e) ==
    IF e = "ApiFailed"
    THEN /\ pc' = "related_scrape"
         /\ err' = "none"
    ELSE Finish(e)

\* Video.related_videos entering _related_videos_api (video.py 251-269).
Related_Start ==
    /\ pc = "start"
    /\ call = "related"
    /\ amountYielded' = 0
    /\ tier' = "related_api"
    /\ pc' = IF LoopRuns(count, 0) THEN "related_api_request" ELSE "done"
    /\ UNCHANGED <<config, interceptor, pageWait, entities, others, replayVerifies,
                   collected, requestCache, browserCursor, browserLoads, cursor,
                   res, idx, remaining, seenIds, processedUrls, scroll, out, err,
                   tierOut, tierPages, requests, initial, scrapingTried>>

\* The one make_request of _related_videos_api (video.py 269-304); every
\* answer that is not a page with status 0 ends in ApiFailedException.
RelatedApi_Request ==
    /\ pc = "related_api_request"
    /\ \E o \in ApiOutcomes :
        LET e == CommentsApiCheck(o)
            r == PageAt(server, 0)
        IN  /\ requests' = Append(requests, [cursor |-> 0, outcome |-> o])
            /\ IF e # "none"
               THEN /\ RelatedOnError(e)
                    /\ UNCHANGED <<res, idx, tierPages>>
               ELSE /\ res' = r
                    /\ idx' = 0
                    /\ tierPages' = Append(tierPages, r)
                    /\ err' = "none"
                    /\ pc' = IF r.items # <<>> THEN "related_api_yield" ELSE "done"
    /\ UNCHANGED <<config, interceptor, pageWait, entities, others, replayVerifies,
                   collected, requestCache, browserCursor, browserLoads, cursor,
                   amountYielded, remaining, seenIds, processedUrls, scroll, out, tier,
                   tierOut, initial, scrapingTried>>

\* One "yield video" of _related_videos_api and the code after it
\* (video.py 296-304).
RelatedApi_Yield ==
    /\ pc = "related_api_yield"
    /\ out' = Append(out, res.items[idx + 1])
    /\ tierOut' = Append(tierOut, res.items[idx + 1])
    /\ idx' = idx + 1
    /\ amountYielded' = amountYielded + 1
    /\ pc' = IF CountReached(count, amountYielded + 1) THEN "done"
             ELSE IF idx + 1 < Len(res.items) THEN "related_api_yield"
             ELSE "done"
    /\ UNCHANGED <<config, interceptor, pageWait, entities, others, replayVerifies,
                   collected, requestCache, browserCursor, browserLoads, cursor,
                   res, remaining, seenIds, processedUrls, scroll, err, tier, tierPages,
                   requests, initial, scrapingTried>>

\* What the interceptor may have buffered for api/related/item_list after
\* the video page was loaded.
RelatedLoads(srv) ==
    { <<>>,
      <<Event("related", TRUE, PageAt(srv, 0))>>,
      <<Event("related", FALSE, PageAt(srv, 0)), Event("related", TRUE, PageAt(srv, 0))>>,
      <<Event("related", TRUE, Garbage)>> }

\* One response of Video._related_videos (video.py 224-243).
RelatedStep(acc, ev, c) ==
    IF acc.stopped THEN acc
    ELSE IF ~ev.own THEN acc
    ELSE IF ev.body.type = "garbage" THEN acc
    ELSE LET a == [acc EXCEPT !.yielded = @ \o ev.body.items,
                              !.counter = @ + Len(ev.body.items)]
         IN  IF a.counter >= c THEN [a EXCEPT !.stopped = TRUE] ELSE a

RECURSIVE RelatedFold(_, _, _)
RelatedFold(acc, resps, c) ==
    IF resps = <<>> THEN acc
    ELSE RelatedFold(RelatedStep(acc, Head(resps), c), Tail(resps), c)

RelatedPass(buf, counter, c) ==
    RelatedFold([yielded |-> <<>>, counter |-> counter, stopped |-> FALSE],
                DrainResults(buf, "related"), c)

\* _related_videos_scraping (video.py 306-326): view, a pass over the
\* buffer and, when it yielded nothing, a reload, a drain of the whole
\* buffer and a second pass.
Related_Scrape ==
    /\ pc = "related_scrape"
    /\ scrapingTried' = TRUE
    /\ tier' = "related_scraping"
    /\ \E state \in PageStates, first \in RelatedLoads(server), second \in RelatedLoads(server) :
        LET e == ViewCheck(state)
            p1 == RelatedPass(collected \o first, 0, count)
            p2 == RelatedPass(second, 0, count)
        IN  IF e # "none"
            THEN /\ Finish(e)
                 /\ UNCHANGED <<collected, out>>
            ELSE IF p1.counter # 0
            THEN /\ Finish("none")
                 /\ collected' = DrainRemaining(collected \o first, "related")
                 /\ out' = out \o p1.yielded
            ELSE /\ Finish("none")
                 /\ collected' = <<>>
                 /\ out' = out \o p2.yielded
    /\ UNCHANGED <<config, interceptor, pageWait, entities, others, replayVerifies,
                   requestCache, browserCursor, browserLoads, cursor, res, idx,
                   amountYielded, remaining, seenIds, processedUrls, scroll, tierOut,
                   tierPages, requests, initial>>

(***************************** specification *******************************)
Next ==
    \/ Videos_Start
    \/ Videos_InitialYield
    \/ VideosApi_Request
    \/ VideosApi_Yield
    \/ VideosScraping_Load
    \/ VideosScraping_Yield
    \/ VideosScroll_Round
    \/ Comments_Start
    \/ CommentsApi_Request
    \/ CommentsApi_Yield
    \/ CommentsScraping_Load
    \/ CommentsScraping_Yield
    \/ CommentsReplay_Request
    \/ CommentsScroll_Round
    \/ Related_Start
    \/ RelatedApi_Request
    \/ RelatedApi_Yield
    \/ Related_Scrape

Spec == Init /\ [][Next]_vars

(***************************** the interceptor *****************************)
\* The pagination state of a session in which no accessor is running,
\* whatever cookies the session holds.
IdleCall ==
    /\ call = "none"
    /\ count = None
    /\ server = [n |-> 0, p |-> 1, lastMore |-> FALSE]
    /\ usedApi = FALSE
    /\ asDictEmpty = FALSE
    /\ canNavigate = TRUE
    /\ requestCache = {}
    /\ browserCursor = 0
    /\ browserLoads = 0
    /\ pc = "idle"
    /\ cursor = 0
    /\ res = NoRes
    /\ idx = 0
    /\ amountYielded = 0
    /\ remaining = None
    /\ seenIds = {}
    /\ processedUrls = {}
    /\ scroll = NoScroll
    /\ out = <<>>
    /\ err = "none"
    /\ tier = "none"
    /\ tierOut = <<>>
    /\ tierPages = <<>>
    /\ requests = <<>>
    /\ initial = NoInitial
    /\ scrapingTried = FALSE
    /\ replayVerifies = 0

\* No accessor is running and the session holds no login cookie.
NoCall ==
    /\ IdleCall
    /\ loggedIn = FALSE

pagination == <<config, collected, requestCache, browserCursor, browserLoads, pc, cursor,
                res, idx, amountYielded, remaining, seenIds, processedUrls, scroll, out,
                err, tier, tierOut, tierPages, requests, initial, scrapingTried,
                replayVerifies>>

\* PyTok.__aenter__ (tiktok.py 288-291): nothing pending, nothing collected.
InitInterceptor ==
    /\ NoCall
    /\ collected = <<>>
    /\ pendingRequests = {}
    /\ fetchTasks = {}
    /\ results = <<>>
    /\ lastOp = NoOp
    /\ arrivals = 0
    /\ draining = NotDraining
    /\ page = NoPage
    /\ wait = NoWait
    /\ NoEntities
    /\ NoOthers

\* The endpoints of the responses the browser receives; "static" stands for
\* a URL that holds none of _TRACKED_URL_PATTERNS.
UrlKinds == {"item_list", "comment_list", "static"}

\* PyTok._should_track_url (tiktok.py 222-231).
ShouldTrack(kind) == kind # "static"

\* The url_pattern arguments of the callers; "" stands for None.
Patterns == {"", "item_list", "comment_list"}

\* Whose secUid the URL of an arriving item_list response carries: that of
\* the user whose call drains the buffer (TRUE) or, when a call for another
\* user runs on the same instance, also that of the other user (FALSE).
Owners == IF user = NoEntity THEN {TRUE} ELSE BOOLEAN

\* PyTok._on_response (tiktok.py 233-244).
OnResponse ==
    /\ arrivals < MaxArrivals
    /\ \E kind \in UrlKinds, own \in Owners :
        /\ IF kind = "item_list" THEN TRUE ELSE own
        /\ arrivals' = arrivals + 1
        /\ pendingRequests' = IF ShouldTrack(kind)
                              THEN pendingRequests \cup
                                   {[id |-> arrivals + 1, kind |-> kind, own |-> own]}
                              ELSE pendingRequests
        /\ lastOp' = [op |-> "response", id |-> arrivals + 1, kind |-> kind]
    /\ UNCHANGED <<pagination, fetchTasks, results, draining, pageWait, entities, others>>

\* PyTok._on_loading_finished (tiktok.py 246-254) for a request id that is
\* pending: the entry is popped and a _fetch_response_body task scheduled.
OnLoadingFinished ==
    /\ \E info \in pendingRequests :
        /\ pendingRequests' = pendingRequests \ {info}
        /\ fetchTasks' = fetchTasks \cup {info}
        /\ finished' = Append(finished, info.id)
        /\ lastOp' = [op |-> "finished", id |-> info.id, kind |-> info.kind]
    /\ UNCHANGED <<pagination, results, arrivals, draining, pageWait, entities, search, hashtag,
                   replies, drag>>

\* What get_response_body may do: return a body, return an empty body, throw.
FetchOutcomes == {"body", "empty", "throw"}

\* Mutant: the event is appended whatever the fetch did.
FetchedBuffer_AppendsAlways(buf, info, outcome) ==
    Append(buf, Event(info.kind, info.own, Page(<<info.id>>, FALSE, info.id)))

\* The buffer after _fetch_response_body (tiktok.py 258-269): the event is
\* appended only when a non-empty body was returned.
FetchedBuffer(buf, info, outcome) ==
    IF outcome = "body"
    THEN Append(buf, Event(info.kind, info.own, Page(<<info.id>>, FALSE, info.id)))
    ELSE buf

\* One PyTok._fetch_response_body task (tiktok.py 256-269).
FetchResponseBody ==
    /\ \E info \in fetchTasks, outcome \in FetchOutcomes :
        /\ fetchTasks' = fetchTasks \ {info}
        /\ collected' = FetchedBuffer(collected, info, outcome)
        /\ finished' = IF outcome = "body" THEN finished
                       ELSE SelectSeq(finished, LAMBDA id : id # info.id)
        /\ lastOp' = [op |-> "fetch", id |-> info.id, outcome |-> outcome,
                      buffer |-> collected, pending |-> pendingRequests,
                      tasks |-> fetchTasks]
    /\ UNCHANGED <<config, requestCache, browserCursor, browserLoads, pc, cursor,
                   res, idx, amountYielded, remaining, seenIds, processedUrls, scroll, out,
                   err, tier, tierOut, tierPages, requests, initial, scrapingTried,
                   replayVerifies, pendingRequests, results, arrivals, draining, pageWait,
                   entities, search, hashtag, replies, drag>>

\* A caller enters process_pending_responses(url_pattern) and sleeps
\* (tiktok.py 271-274).
ProcessPending_Sleep ==
    /\ ~draining.asleep
    /\ \E pattern \in Patterns :
        /\ draining' = [asleep |-> TRUE, pattern |-> pattern]
        /\ lastOp' = [op |-> "sleep", pattern |-> pattern]
    /\ UNCHANGED <<pagination, pendingRequests, fetchTasks, results, arrivals, pageWait,
                   entities, others>>

\* process_pending_responses after its sleep (tiktok.py 276-286): selection
\* and removal, with no await between them.
ProcessPending_Select ==
    /\ draining.asleep
    /\ \E pattern \in {draining.pattern} :
        /\ draining' = NotDraining
        /\ results' = DrainResults(collected, pattern)
        /\ collected' = DrainRemaining(collected, pattern)
        /\ finished' = SelectSeq(finished, LAMBDA id :
                           \A ev \in ToSet(DrainResults(collected, pattern)) : ev.url # id)
        /\ lastOp' = [op |-> "drain", pattern |-> pattern, buffer |-> collected]
    /\ UNCHANGED <<config, requestCache, browserCursor, browserLoads, pc, cursor,
                   res, idx, amountYielded, remaining, seenIds, processedUrls, scroll, out,
                   err, tier, tierOut, tierPages, requests, initial, scrapingTried,
                   replayVerifies, pendingRequests, fetchTasks, arrivals, pageWait, entities,
                   search, hashtag, replies, drag>>

\* Two paginated calls for different users share the PyTok instance.
InitTwoUsers ==
    /\ NoCall
    /\ collected = <<>>
    /\ pendingRequests = {}
    /\ fetchTasks = {}
    /\ results = <<>>
    /\ lastOp = NoOp
    /\ arrivals = 0
    /\ draining = NotDraining
    /\ page = NoPage
    /\ wait = NoWait
    /\ user = [pc |-> "interleaved"]
    /\ video = NoEntity
    /\ login = NoEntity
    /\ legacy = NoEntity
    /\ NoOthers

NextInterceptor ==
    \/ OnResponse
    \/ OnLoadingFinished
    \/ FetchResponseBody
    \/ ProcessPending_Sleep
    \/ ProcessPending_Select

SpecInterceptor == InitInterceptor /\ [][NextInterceptor]_vars

SpecTwoUsers == InitTwoUsers /\ [][NextInterceptor]_vars

(************************ page-state classification ************************)
\* The call sites that navigate and classify the page.
Sites == {"videos_scraping", "info_full_scrape", "comments_scraping", "view"}

\* Video.view calls wait_for_content_or_unavailable (video.py 217); the
\* other sites call wait_for_content_or_unavailable_or_captcha.
WithCaptcha(site) == site # "view"

\* The user sites pass a no_content_text list (user.py 165-169, 337-341).
HasNoContentText(site) == site \in {"videos_scraping", "info_full_scrape"}

\* What the page shows after a navigation.  Each element is looked up by
\* its own locator, so any combination may be visible.  refresh: the
\* 'Refresh' text.  captcha: none, one that solve_captcha clears, one still
\* visible after solve_captcha, one of a type solve_captcha rejects.
\* popup: the login popup, with or without its close button.  visibleAt:
\* the number of sleeps of the polling loop after which the content element
\* is visible (max_tries + 1: not within the polls).  reloadVisible: the
\* content is visible after the reload.
Pages ==
    [site : Sites,
     refresh : BOOLEAN,
     captcha : {"none", "solvable", "stuck", "unsupported"},
     unavailable : BOOLEAN,
     empty : BOOLEAN,
     popup : {"none", "closable", "stuck"},
     visibleAt : 0..(max_tries + 1),
     reloadVisible : BOOLEAN,
     shape : {"page"}]

\* The locals of one call of the classification and what it did to the
\* page.  round: the first call after the navigation or a second call on
\* the same page.  acts: the kinds of mutating action of this call.  gone:
\* the elements a click or a solve has removed from the page.  before: gone
\* when this call began.  base: the polling sleeps of the earlier call.
FirstCall ==
    [pc |-> "enter", tries |-> 0, solves |-> 0, exc |-> "none", round |-> 1,
     acts |-> {}, gone |-> {}, before |-> {}, base |-> 0]

InitClassify ==
    /\ NoCall
    /\ collected = <<>>
    /\ pendingRequests = {}
    /\ fetchTasks = {}
    /\ results = <<>>
    /\ lastOp = NoOp
    /\ arrivals = 0
    /\ draining = NotDraining
    /\ page \in Pages
    /\ wait = FirstCall
    /\ NoEntities
    /\ NoOthers

Raised(e) == [wait EXCEPT !.pc = "raised", !.exc = e]

\* refresh_button.is_visible() (base.py 120).
RefreshVisible(pg, w) == pg.refresh /\ "refresh" \notin w.gone

\* check_and_resolve_refresh_button (base.py 116-123): the 'Refresh' text
\* is clicked when it is visible.
ResolveRefresh(pg, w) ==
    IF RefreshVisible(pg, w)
    THEN [w EXCEPT !.acts = @ \cup {"refresh_click"}, !.gone = @ \cup {"refresh"}]
    ELSE w

\* login_popup.is_visible() (base.py 129).
PopupVisible(pg, w) == pg.popup # "none" /\ "popup" \notin w.gone

\* check_and_resolve_login_popup (base.py 125-136): the close button is
\* clicked when it is visible; without it the call raises
\* NotAvailableException.
ResolvePopup(pg, w) ==
    IF ~PopupVisible(pg, w) THEN w
    ELSE IF pg.popup = "closable"
    THEN [w EXCEPT !.acts = @ \cup {"close_click"}, !.gone = @ \cup {"popup"}]
    ELSE [w EXCEPT !.pc = "raised", !.exc = "NotAvailable"]

\* check_and_resolve_refresh_button and check_and_resolve_login_popup at the
\* head of the classification (base.py 73-74, 158-159).
AfterHead(pg, w) ==
    IF ResolvePopup(pg, ResolveRefresh(pg, w)).pc = "raised"
    THEN ResolvePopup(pg, ResolveRefresh(pg, w))
    ELSE IF WithCaptcha(pg.site)
    THEN [ResolvePopup(pg, ResolveRefresh(pg, w)) EXCEPT !.pc = "captcha"]
    ELSE [ResolvePopup(pg, ResolveRefresh(pg, w)) EXCEPT !.pc = "checks"]

Wait_Enter ==
    /\ wait.pc = "enter"
    /\ wait' = AfterHead(page, wait)
    /\ UNCHANGED <<pagination, interceptor, entities, others, page>>

\* Mutant: a captcha still visible after solve_captcha sends the call back
\* to the captcha check for another attempt.
AfterSolve_Retries(pg, w) ==
    IF pg.captcha = "stuck" THEN [w EXCEPT !.pc = "captcha"]
    ELSE [w EXCEPT !.pc = "checks"]

\* After solve_captcha returned (base.py 168-174): the captcha is looked up
\* again; if it is gone, expect() waits for the content, the unavailable
\* text or a no-content text and fails with the library's AssertionError.
AfterSolve(pg, w) ==
    IF pg.captcha = "stuck" THEN [w EXCEPT !.pc = "raised", !.exc = "Captcha"]
    ELSE IF pg.unavailable THEN [w EXCEPT !.pc = "checks"]
    ELSE IF pg.empty /\ HasNoContentText(pg.site) THEN [w EXCEPT !.pc = "checks"]
    ELSE IF pg.visibleAt <= max_tries THEN [w EXCEPT !.pc = "checks"]
    ELSE [w EXCEPT !.pc = "raised", !.exc = "AssertionError"]

\* captcha_element.is_visible() (base.py 165).
CaptchaVisible(pg, w) == pg.captcha # "none" /\ "captcha" \notin w.gone

\* solve_captcha was called (base.py 167): one more attempt, and the
\* captcha is gone when it is one the solver clears.
Attempted(pg, w) ==
    [w EXCEPT !.solves = @ + 1,
              !.acts = @ \cup {"solve"},
              !.gone = IF pg.captcha = "solvable" THEN @ \cup {"captcha"} ELSE @]

\* The captcha check (base.py 164-174): solve_captcha is called when the
\* captcha element is visible; it raises CaptchaException for a captcha
\* type it does not support (base.py 387-388).
Wait_Captcha ==
    /\ wait.pc = "captcha"
    /\ wait' = IF ~CaptchaVisible(page, wait) THEN [wait EXCEPT !.pc = "checks"]
               ELSE IF page.captcha = "unsupported"
               THEN [Attempted(page, wait) EXCEPT !.pc = "raised", !.exc = "Captcha"]
               ELSE AfterSolve(page, Attempted(page, wait))
    /\ UNCHANGED <<pagination, interceptor, entities, others, page>>

\* Mutant: the unavailable text is not looked up.
ChecksOutcome_SkipsUnavailable(pg) ==
    IF pg.empty /\ HasNoContentText(pg.site) THEN "NoContent" ELSE "none"

\* The unavailable and no-content checks (base.py 76-93, 176-197): the
\* exception they end with.
ChecksOutcome(pg) ==
    IF pg.unavailable THEN "NotAvailable"
    ELSE IF pg.empty /\ HasNoContentText(pg.site) THEN "NoContent"
    ELSE "none"

\* The checks before the polling loop.  The captcha variant looks for the
\* 'Refresh' text and the login popup once more first (base.py 177-178).
Wait_Checks ==
    /\ wait.pc = "checks"
    /\ wait' = IF ResolvePopup(page, ResolveRefresh(page, wait)).pc = "raised"
               THEN ResolvePopup(page, ResolveRefresh(page, wait))
               ELSE IF ChecksOutcome(page) # "none"
               THEN [ResolvePopup(page, ResolveRefresh(page, wait))
                        EXCEPT !.pc = "raised", !.exc = ChecksOutcome(page)]
               ELSE [ResolvePopup(page, ResolveRefresh(page, wait)) EXCEPT !.pc = "poll"]
    /\ UNCHANGED <<pagination, interceptor, entities, others, page>>

\* content_element.is_visible() after slept sleeps of the polling loop.
ContentVisible(pg, slept) == slept >= pg.visibleAt

\* The polling sleeps the page has had since the navigation.
Slept(w) == w.base + w.tries

\* Mutant: the loop sleeps once before its first test.
PollAgain_SleepsFirst(visible, tries) ==
    IF tries = 0 THEN TRUE ELSE ~visible /\ tries < max_tries

\* The test of the polling loop (base.py 98, 202-203).
PollAgain(visible, tries) == ~visible /\ tries < max_tries

\* One evaluation of the loop test and, when it holds, one pass of the
\* body: a sleep, the 'Refresh' check and tries += 1 (base.py 98-101,
\* 202-207).
Wait_Poll ==
    /\ wait.pc = "poll"
    /\ wait' = IF PollAgain(ContentVisible(page, Slept(wait)), wait.tries)
               THEN [ResolveRefresh(page, wait)
                        EXCEPT !.tries = @ + 1, !.acts = @ \cup {"sleep"}]
               ELSE [wait EXCEPT !.pc = "polled"]
    /\ UNCHANGED <<pagination, interceptor, entities, others, page>>

\* What the library raises when expect(...).to_be_visible fails after the
\* reload of wait_for_content_or_unavailable (base.py 109-112): the code
\* catches TimeoutError only.
ReloadFailures == {"Timeout", "AssertionError"}

\* "if tries >= max_tries" after the loop: wait_for_content_or_unavailable
\* reloads the page (base.py 103-112), the captcha variant passes
\* (base.py 209-211); then "return content_element".
Exhausted(site, tries) ==
    IF tries < max_tries THEN "return"
    ELSE IF WithCaptcha(site) THEN "return"
    ELSE "reload"

Wait_End ==
    /\ wait.pc = "polled"
    /\ \E e \in ReloadFailures :
        wait' = IF Exhausted(page.site, wait.tries) = "return"
                THEN [wait EXCEPT !.pc = "returned"]
                ELSE IF page.reloadVisible
                THEN [wait EXCEPT !.pc = "returned", !.acts = @ \cup {"navigate"}]
                ELSE [wait EXCEPT !.pc = "raised", !.exc = e,
                                  !.acts = @ \cup {"navigate"}]
    /\ UNCHANGED <<pagination, interceptor, entities, others, page>>

\* The caller after the classification returned: the embedded page data is
\* read and the pagination begins (user.py 343-349, 171-173,
\* video.py 614-615).
Caller_Continues ==
    /\ wait.pc = "returned"
    /\ wait' = [wait EXCEPT !.pc = "paginating"]
    /\ UNCHANGED <<pagination, interceptor, entities, others, page>>

\* wait_for_content_or_unavailable_or_captcha is called a second time on
\* the page it returned from with the content visible: its locals start
\* afresh (base.py 139-156, 199-200), the page is as the first call left it.
Wait_Again ==
    /\ wait.pc = "returned"
    /\ wait.round = 1
    /\ WithCaptcha(page.site)
    /\ ContentVisible(page, Slept(wait))
    /\ wait' = [wait EXCEPT !.pc = "enter", !.round = 2, !.tries = 0,
                            !.acts = {}, !.before = wait.gone,
                            !.base = Slept(wait)]
    /\ UNCHANGED <<pagination, interceptor, entities, others, page>>

NextClassify ==
    \/ Wait_Enter
    \/ Wait_Captcha
    \/ Wait_Checks
    \/ Wait_Poll
    \/ Wait_End
    \/ Caller_Continues
    \/ Wait_Again

SpecClassify == InitClassify /\ [][NextClassify]_vars

(***************************** User.info_full ******************************)
\* The second status code the code treats as "login required"
\* (user.py 121, 291).
StatusLoginAlt == 209002

\* The status codes of "this user does not exist" (user.py 117).
StatusNotFound == {10202, 10221, 100002}

\* The status codes an answer of api/user/detail may carry: success, the
\* codes the code names, and one it does not name.
InfoStatusCodes ==
    {0, StatusLogin, StatusLoginAlt, StatusPrivate, 10000} \cup StatusNotFound

\* userInfo.user and userInfo.stats of the account, as the server and the
\* page-embedded JSON both carry them.
UserRecords == [id : {7}, secUid : {"sec"}, uniqueId : {"therock"}]

StatsRecords == [followerCount : {1}, videoCount : 0..1]

\* What make_request gives User.info_full (user.py 104-112, 137-141): an
\* EmptyResponseException, None, or a response with a status code and,
\* when the code is 0, with or without the user's data.
InfoAnswers ==
    {[kind |-> "empty", statusCode |-> 0, hasUser |-> FALSE],
     [kind |-> "none", statusCode |-> 0, hasUser |-> FALSE]}
    \cup [kind : {"resp"}, statusCode : InfoStatusCodes \ {0}, hasUser : {FALSE}]
    \cup [kind : {"resp"}, statusCode : {0}, hasUser : BOOLEAN]

\* The script tags extract_tag_contents looks for, in the order it looks
\* for them (helpers.py 12, 16-17, 30).
TagOrder == <<"__UNIVERSAL_DATA_FOR_REHYDRATION__", "__NEXT_DATA__", "SIGI_STATE">>

\* The shapes of the JSON in the tag as _info_full_scrape tells them apart
\* (user.py 184-196): __DEFAULT_SCOPE__ with webapp.user-detail of status 0
\* or of another status, UserModule with or without the username among its
\* users, neither key.
JsonShapes == {"scope", "scope_status", "module", "module_other", "other"}

\* A profile page: the script tags it carries, whether its head carries the
\* nonce that the __NEXT_DATA__ branch splits on, whether the SIGI_STATE
\* tag is empty, and the shape of the JSON.
Docs == [tags : SUBSET ToSet(TagOrder), nonce : BOOLEAN, emptyTag : BOOLEAN,
         json : JsonShapes]

\* extract_tag_contents (helpers.py 9-37): the first tag present in the
\* order of TagOrder; the __NEXT_DATA__ branch indexes the result of
\* html.split on the nonce (helpers.py 23-27); with no tag present the
\* function raises NotAvailableException.
extract_tag_contents(html) ==
    IF TagOrder[1] \in html.tags
    THEN [exc |-> "none", tag |-> TagOrder[1], contents |-> "json"]
    ELSE IF TagOrder[2] \in html.tags
    THEN IF html.nonce THEN [exc |-> "none", tag |-> TagOrder[2], contents |-> "json"]
         ELSE [exc |-> "IndexError", tag |-> TagOrder[2], contents |-> ""]
    ELSE IF TagOrder[3] \in html.tags
    THEN [exc |-> "none", tag |-> TagOrder[3],
          contents |-> IF html.emptyTag THEN "" ELSE "json"]
    ELSE [exc |-> "NotAvailable", tag |-> "none", contents |-> ""]

\* {**a, **b}: the keys of both, b's value where both have the key.
Merge(a, b) ==
    [k \in DOMAIN a \cup DOMAIN b |-> IF k \in DOMAIN b THEN b[k] ELSE a[k]]

\* The response of api/user/detail for the account (user.py 137-146).
InfoResponse(account) ==
    [statusCode |-> 0, userInfo |-> [user |-> account.user, stats |-> account.stats]]

\* Mutant: a login-required status always falls back to scraping.
InfoApiCheck_LoginFallsBack(a, isLoggedIn) ==
    IF a.kind # "resp" THEN "ApiFailed"
    ELSE IF a.statusCode = 0 THEN (IF a.hasUser THEN "none" ELSE "ApiFailed")
    ELSE IF a.statusCode \in StatusNotFound THEN "NotFound"
    ELSE IF a.statusCode \in {StatusLogin, StatusLoginAlt} THEN "ApiFailed"
    ELSE IF a.statusCode = StatusPrivate THEN "AccountPrivate"
    ELSE "ApiFailed"

\* The checks of User.info_full on the answer (user.py 104-142): the
\* exception raised inside the try block, "none" when the data is accepted.
InfoApiCheck(a, isLoggedIn) ==
    IF a.kind # "resp" THEN "ApiFailed"
    ELSE IF a.statusCode = 0 THEN (IF a.hasUser THEN "none" ELSE "ApiFailed")
    ELSE IF a.statusCode \in StatusNotFound THEN "NotFound"
    ELSE IF a.statusCode \in {StatusLogin, StatusLoginAlt}
    THEN (IF isLoggedIn THEN "ApiFailed" ELSE "Login")
    ELSE IF a.statusCode = StatusPrivate THEN "AccountPrivate"
    ELSE "ApiFailed"

\* The User objects of the model, both made for the same username.
Objects == {"u1", "u2"}

\* A User made from a username (user.py 49-65): as_dict is {}.
NewUser ==
    [pc |-> "new", asDict |-> <<>>, usedApi |-> FALSE, exc |-> "none",
     asked |-> FALSE, statusCode |-> 0, scraped |-> FALSE, tags |-> {},
     tag |-> "unread"]

\* What the classification of the profile page ends with
\* (user.py 165-169): a return or one of its exceptions.
ClassifyOutcomes == {"returned", "NotAvailable", "NoContent", "Captcha", "AssertionError"}

\* The same as NoCall, except that the session may hold a login cookie.
InitUser ==
    /\ IdleCall
    /\ loggedIn \in BOOLEAN
    /\ collected = <<>>
    /\ pendingRequests = {}
    /\ fetchTasks = {}
    /\ results = <<>>
    /\ lastOp = NoOp
    /\ arrivals = 0
    /\ draining = NotDraining
    /\ page = NoPage
    /\ wait = NoWait
    /\ NoOthers
    /\ video = NoEntity
    /\ login = NoEntity
    /\ legacy = NoEntity
    /\ \E u \in UserRecords, st \in StatsRecords :
        user = [pc |-> "live",
                account |-> [user |-> u, stats |-> st],
                objs |-> [o \in Objects |-> NewUser]]

\* The try block of User.info_full (user.py 95-147) and the handler that
\* starts the scraping fallback (user.py 148-151).
InfoFull_Request(o) ==
    /\ user.pc = "live"
    /\ user.objs[o].pc = "new"
    /\ \E a \in InfoAnswers :
        LET e == InfoApiCheck(a, loggedIn)
            asked == [user.objs[o] EXCEPT !.asked = TRUE, !.statusCode = a.statusCode]
        IN  user' = [user EXCEPT !.objs[o] =
                IF e = "none"
                THEN [asked EXCEPT !.pc = "done", !.asDict = InfoResponse(user.account),
                                   !.usedApi = TRUE]
                ELSE IF e = "ApiFailed"
                THEN [asked EXCEPT !.pc = "scrape", !.usedApi = FALSE]
                ELSE [asked EXCEPT !.pc = "raised", !.exc = e]]
    /\ UNCHANGED <<pagination, interceptor, pageWait, others, video, login, legacy>>

\* The user found in the embedded JSON (user.py 180-198); <<>> for None.
ScrapedUser(account, shape) ==
    IF shape \in {"scope", "module"} THEN Merge(account.user, account.stats)
    ELSE <<>>

\* The outcome of User._info_full_scrape after the navigation
\* (user.py 165-203) as the changed User object; c is what the
\* classification ended with and html the page it left.
InfoFullScraped(u, account, html, c) ==
    LET t == extract_tag_contents(html)
        found == ScrapedUser(account, html.json)
        s == [u EXCEPT !.scraped = TRUE,
                       !.tags = IF c = "returned" THEN html.tags ELSE {},
                       !.tag = IF c = "returned" THEN t.tag ELSE "unread"]
    IN  IF c # "returned" THEN [s EXCEPT !.pc = "raised", !.exc = c]
        ELSE IF t.exc # "none" THEN [s EXCEPT !.pc = "raised", !.exc = t.exc]
        ELSE IF t.contents = "" THEN [s EXCEPT !.pc = "raised", !.exc = "InvalidJSON"]
        ELSE IF found = <<>> THEN [s EXCEPT !.pc = "raised", !.exc = "InvalidJSON"]
        ELSE [s EXCEPT !.pc = "done", !.asDict = found]

InfoFull_Scrape(o) ==
    /\ user.pc = "live"
    /\ user.objs[o].pc = "scrape"
    /\ \E c \in ClassifyOutcomes, html \in Docs :
        user' = [user EXCEPT !.objs[o] =
                    InfoFullScraped(user.objs[o], user.account, html, c)]
    /\ UNCHANGED <<pagination, interceptor, pageWait, others, video, login, legacy>>

\* The answers of api/post/item_list that end _get_videos_api with an
\* exception (user.py 275-300).
FailingOutcomes == ApiOutcomes \ {"ok"}

\* User.videos on an object whose info came from the API
\* (user.py 225-226, 244-252): the first request of _get_videos_api is
\* answered with a failure; ApiFailedException starts the scraping
\* fallback, any other exception reaches the caller.
UserVideos_FirstRequestFails(o) ==
    /\ user.pc = "live"
    /\ user.objs[o].pc = "done"
    /\ user.objs[o].usedApi
    /\ pc = "idle"
    /\ \E a \in FailingOutcomes :
        /\ requests' = Append(requests, [cursor |-> 0, outcome |-> a])
        /\ VideosOnError(VideosApiCheck(a))
    /\ call' = "videos"
    /\ UNCHANGED <<count, server, loggedIn, usedApi, asDictEmpty, canNavigate, collected,
                   requestCache, browserCursor, browserLoads, cursor, res, idx,
                   amountYielded, remaining, seenIds, processedUrls, scroll, out, tier,
                   tierOut, tierPages, initial, scrapingTried, replayVerifies,
                   interceptor, pageWait, entities, others>>

NextUser ==
    \/ \E o \in Objects : InfoFull_Request(o)
    \/ \E o \in Objects : InfoFull_Scrape(o)
    \/ \E o \in Objects : UserVideos_FirstRequestFails(o)

SpecUser == InitUser /\ [][NextUser]_vars

(******************************* PyTok.login *******************************)
\* The cookie names the browser may hold: the three that _is_logged_in
\* looks for (tiktok.py 689) and one it does not.
CookieNames == {"sessionid", "sid_tt", "sessionid_ss", "msToken"}

\* Mutant: any cookie counts as a login cookie.
login_cookies_Any == CookieNames

\* login_cookies of _is_logged_in (tiktok.py 689).
login_cookies == {"sessionid", "sid_tt", "sessionid_ss"}

\* _is_logged_in (tiktok.py 684-690).
IsLoggedIn(cookies) == cookies \cap login_cookies # {}

\* How login() is called (tiktok.py 449-454, 460): with credentials,
\* without and wait_for_input, without and polling.
LoginModes == {"automatic", "manual_input", "manual_poll"}

\* The timeouts of the model, in sleeps of the polling loops
\* (tiktok.py 467-471, 555-577).
Timeouts == 0..MaxPolls

\* The form as _automatic_login finds it (tiktok.py 481-503): both fields,
\* no username field, no password field.
Forms == {"complete", "no_username", "no_password"}

InitLogin ==
    /\ NoCall
    /\ collected = <<>>
    /\ pendingRequests = {}
    /\ fetchTasks = {}
    /\ results = <<>>
    /\ lastOp = NoOp
    /\ arrivals = 0
    /\ draining = NotDraining
    /\ page = NoPage
    /\ wait = NoWait
    /\ NoOthers
    /\ user = NoEntity
    /\ video = NoEntity
    /\ legacy = NoEntity
    /\ \E m \in LoginModes, t \in Timeouts, c \in SUBSET CookieNames, f \in Forms :
        login = [pc |-> "start", mode |-> m, timeout |-> t, cookies |-> c,
                 form |-> f, opened |-> FALSE, slept |-> 0, error |-> FALSE,
                 refresh |-> "none", result |-> "none"]

\* "return True".
ReturnTrue(l) == [l EXCEPT !.pc = "done", !.result = "True"]

LoginRaise(l, e) == [l EXCEPT !.pc = "done", !.result = e]

\* _refresh_api_tokens (tiktok.py 670-682): the cookies are copied to the
\* API sessions; an exception on the way is logged and swallowed.
RefreshOutcomes == {"refreshed", "failed"}

\* login() up to the choice of the method (tiktok.py 440-454).
Login_Start ==
    /\ login.pc = "start"
    /\ login' = IF IsLoggedIn(login.cookies) THEN ReturnTrue(login)
                ELSE [login EXCEPT !.opened = TRUE,
                                   !.pc = IF login.mode = "automatic" THEN "form"
                                          ELSE login.mode]
    /\ UNCHANGED <<pagination, interceptor, pageWait, others, user, video, legacy>>

\* The person at the browser, or TikTok after the submitted form, completes
\* the login: the browser receives a cookie.
Browser_SetsCookie ==
    /\ login.pc \in {"form", "manual_input", "manual_poll", "auto_poll"}
    /\ \E c \in CookieNames \ login.cookies :
        login' = [login EXCEPT !.cookies = @ \cup {c}]
    /\ UNCHANGED <<pagination, interceptor, pageWait, others, user, video, legacy>>

\* The login page shows one of the error messages of _check_login_error
\* (tiktok.py 620-648).
Browser_ShowsError ==
    /\ login.pc = "auto_poll"
    /\ ~login.error
    /\ login' = [login EXCEPT !.error = TRUE]
    /\ UNCHANGED <<pagination, interceptor, pageWait, others, user, video, legacy>>

\* _manual_login with wait_for_input after input() returned
\* (tiktok.py 460-465).
ManualLogin_Input ==
    /\ login.pc = "manual_input"
    /\ \E r \in RefreshOutcomes :
        login' = IF ~IsLoggedIn(login.cookies) THEN LoginRaise(login, "Login")
                 ELSE ReturnTrue([login EXCEPT !.refresh = r])
    /\ UNCHANGED <<pagination, interceptor, pageWait, others, user, video, legacy>>

\* The test of both polling loops, "time.time() - start_time < timeout"
\* (tiktok.py 468, 556), in sleeps.
InBudget(l) == l.slept < l.timeout

\* One evaluation of the loop test of _manual_login and, when it holds,
\* one pass of the body (tiktok.py 467-473).
ManualLogin_Poll ==
    /\ login.pc = "manual_poll"
    /\ login' = IF ~InBudget(login) THEN LoginRaise(login, "Timeout")
                ELSE IF IsLoggedIn(login.cookies) THEN ReturnTrue(login)
                ELSE [login EXCEPT !.slept = @ + 1]
    /\ UNCHANGED <<pagination, interceptor, pageWait, others, user, video, legacy>>

\* _automatic_login up to its polling loop (tiktok.py 477-551): the two
\* fields are looked up and filled, the form is submitted.
AutomaticLogin_Form ==
    /\ login.pc = "form"
    /\ login' = IF login.form = "complete" THEN [login EXCEPT !.pc = "auto_poll"]
                ELSE LoginRaise(login, "Login")
    /\ UNCHANGED <<pagination, interceptor, pageWait, others, user, video, legacy>>

\* One evaluation of the loop test of _automatic_login and, when it holds,
\* one pass of the body (tiktok.py 553-579).
AutomaticLogin_Poll ==
    /\ login.pc = "auto_poll"
    /\ \E r \in RefreshOutcomes :
        login' = IF ~InBudget(login) THEN LoginRaise(login, "Timeout")
                 ELSE IF login.error THEN LoginRaise(login, "Login")
                 ELSE IF IsLoggedIn(login.cookies)
                 THEN ReturnTrue([login EXCEPT !.refresh = r])
                 ELSE [login EXCEPT !.slept = @ + 1]
    /\ UNCHANGED <<pagination, interceptor, pageWait, others, user, video, legacy>>

NextLogin ==
    \/ Login_Start
    \/ Browser_SetsCookie
    \/ Browser_ShowsError
    \/ ManualLogin_Input
    \/ ManualLogin_Poll
    \/ AutomaticLogin_Form
    \/ AutomaticLogin_Poll

SpecLogin == InitLogin /\ [][NextLogin]_vars

(******************************* Video.info ********************************)
\* The items of the page-embedded JSON as User._get_videos_scraping reads
\* them (user.py 354-382): those of __DEFAULT_SCOPE__ carry the author as
\* an object, those of ItemModule carry the author's username and leave
\* the rest to UserModule.  authorForm tells the two apart; rev
\* distinguishes two states of the same video on the server.
Authors == [id : {7}, uniqueId : {"therock"}]

VideoIds == {1, 2}

ScopeItems ==
    [id : VideoIds, authorForm : {"object"}, author : Authors, createTime : {5},
     stats : {"stats"}, music : {"music"}, rev : 1..MaxRevs]

ModuleItems ==
    [id : VideoIds, authorForm : {"username"}, author : {"therock"}, createTime : {5},
     stats : {"stats"}, music : {"music"}, rev : 1..MaxRevs]

\* A Video made from an id (video.py 62-82): no as_dict attribute.
NewVideo ==
    [pc |-> "live", made |-> "id", id |-> None, held |-> FALSE, asDict |-> <<>>, username |-> "",
     exc |-> "none", calls |-> 0, requests |-> 0, navigations |-> 0, atUrl |-> FALSE,
     returned |-> <<>>, attached |-> <<>>, requestsThen |-> 0, navigationsThen |-> 0]

\* Video.__extract_from_data (video.py 768-788) on data with an author:
\* data["author"]["uniqueId"] is the username when the author is an object
\* and a TypeError when it is a string.
ExtractFromData(v, data) ==
    IF data.authorForm = "object"
    THEN [v EXCEPT !.held = TRUE, !.asDict = data, !.attached = data,
                   !.id = data.id, !.username = data.author.uniqueId]
    ELSE [v EXCEPT !.pc = "raised", !.exc = "TypeError"]

InitVideo ==
    /\ NoCall
    /\ collected = <<>>
    /\ pendingRequests = {}
    /\ fetchTasks = {}
    /\ results = <<>>
    /\ lastOp = NoOp
    /\ arrivals = 0
    /\ draining = NotDraining
    /\ page = NoPage
    /\ wait = NoWait
    /\ NoOthers
    /\ user = NoEntity
    /\ login = NoEntity
    /\ legacy = NoEntity
    /\ video = [pc |-> "unmade"]

\* api.video(id=...) (video.py 62-82); the browser may be at the video's
\* url already.
Video_FromId ==
    /\ video.pc = "unmade"
    /\ \E at \in BOOLEAN, id \in VideoIds :
        video' = [NewVideo EXCEPT !.atUrl = at, !.id = id]
    /\ UNCHANGED <<pagination, interceptor, pageWait, others, user, login, legacy>>

\* User._get_videos_scraping yields self.parent.video(data=video) for an
\* item of the embedded JSON (user.py 354-390), of either shape.
Scraping_YieldsVideo ==
    /\ video.pc = "unmade"
    /\ \E item \in ScopeItems \cup ModuleItems, at \in BOOLEAN :
        video' = ExtractFromData([NewVideo EXCEPT !.made = "scraping", !.atUrl = at], item)
    /\ UNCHANGED <<pagination, interceptor, pageWait, others, user, login, legacy>>

\* Mutant: info() fetches whether or not the Video holds data.
NeedsFetch_Always(v) == TRUE

\* "if not hasattr(self, 'as_dict')" (video.py 93).
NeedsFetch(v) == ~v.held

\* What one fetch of info() ends with (video.py 94-100, 106-138): the API
\* answers, or it fails and the scraping answers, or both fail and the
\* scraping raises InvalidJSONException or NotAvailableException.
FetchResults == {"api", "scraping", "InvalidJSON", "NotAvailable"}

\* info() when it fetches: _info_api makes a request; after its failure
\* _info_scraping navigates unless the page is at the video's url
\* (video.py 111-115) and reads the embedded JSON; its exception reaches
\* the caller and leaves the Video without as_dict.
Fetched(v, how, data) ==
    LET asked == [v EXCEPT !.requests = @ + 1]
        gone == [asked EXCEPT !.navigations = IF v.atUrl THEN @ ELSE @ + 1,
                              !.atUrl = TRUE]
    IN  IF how = "api"
        THEN [asked EXCEPT !.held = TRUE, !.asDict = data, !.returned = data,
                           !.attached = data, !.requestsThen = asked.requests,
                           !.navigationsThen = asked.navigations]
        ELSE IF how = "scraping"
        THEN [gone EXCEPT !.held = TRUE, !.asDict = data, !.returned = data,
                          !.attached = data, !.requestsThen = gone.requests,
                          !.navigationsThen = gone.navigations]
        ELSE [gone EXCEPT !.exc = how]

\* Video.info (video.py 84-104).
Video_Info ==
    /\ video.pc = "live"
    /\ video.calls < MaxInfoCalls
    /\ \E how \in FetchResults, data \in {d \in ScopeItems : d.id = video.id} :
        video' = IF NeedsFetch(video)
                 THEN Fetched([video EXCEPT !.calls = @ + 1, !.exc = "none"], how, data)
                 ELSE [video EXCEPT !.calls = @ + 1, !.returned = video.asDict]
    /\ UNCHANGED <<pagination, interceptor, pageWait, others, user, login, legacy>>

NextVideo ==
    \/ Video_FromId
    \/ Scraping_YieldsVideo
    \/ Video_Info

SpecVideo == InitVideo /\ [][NextVideo]_vars

(************************ TikTokApi User.videos ****************************)
\* What a scroll to the bottom brings (TikTokApi/api/user.py 161, 214-223):
\* the document grows or not, and an api/post/item_list response arrives
\* with the next page, arrives with a captcha denial (type 'verify'), or
\* does not arrive.
ScrollOutcomes == [grows : BOOLEAN, response : {"page", "verify", "none"}]

\* The scroll loaded a further page.
LoadedPage(o) == o.grows /\ o.response = "page"

InitLegacy ==
    /\ NoCall
    /\ collected = <<>>
    /\ pendingRequests = {}
    /\ fetchTasks = {}
    /\ results = <<>>
    /\ lastOp = NoOp
    /\ arrivals = 0
    /\ draining = NotDraining
    /\ page = NoPage
    /\ wait = NoWait
    /\ NoOthers
    /\ user = NoEntity
    /\ video = NoEntity
    /\ login = NoEntity
    /\ \E srv \in SmallServers, c \in 1..MaxCount, sigi \in BOOLEAN :
        legacy = [pc |-> "loop", srv |-> srv, count |-> c, sigi |-> sigi,
                  first |-> TRUE, amount_yielded |-> 0, out |-> <<>>,
                  inbox |-> <<>>, nextCursor |-> 1, idle |-> 0,
                  allLoaded |-> sigi, end |-> "none"]

\* Mutant: the loop stops one record short of count.
LegacyLoops_OneShort(amount, c) == amount + 1 < c

\* "while amount_yielded < count" (TikTokApi/api/user.py 153).
LegacyLoops(amount, c) == amount < c

\* The for loop over the new responses of a later pass
\* (TikTokApi/api/user.py 161-162, 197-211): a 'verify' body is skipped,
\* every record of an itemList is counted and yielded, and a response
\* without hasMore ends the call.
RECURSIVE LegacySearch(_, _)
LegacySearch(l, responses) ==
    IF responses = <<>> THEN l
    ELSE IF Head(responses).type = "verify" THEN LegacySearch(l, Tail(responses))
    ELSE IF ~Head(responses).hasMore
    THEN [l EXCEPT !.amount_yielded = @ + Len(Head(responses).items),
                   !.out = @ \o Head(responses).items,
                   !.pc = "done", !.end = "no_more"]
    ELSE LegacySearch([l EXCEPT !.amount_yielded = @ + Len(Head(responses).items),
                                !.out = @ \o Head(responses).items],
                      Tail(responses))

\* The first pass (TikTokApi/api/user.py 155-156, 167-196, 206-208): the
\* records of ItemModule in the SIGI_STATE tag of the profile page, all
\* counted and yielded; without the tag the call raises Exception.
LegacyFirst(l) ==
    IF ~l.sigi THEN [l EXCEPT !.pc = "done", !.end = "Exception"]
    ELSE [l EXCEPT !.amount_yielded = @ + Len(PageAt(l.srv, 0).items),
                   !.out = @ \o PageAt(l.srv, 0).items]

\* The end of a pass (TikTokApi/api/user.py 213-227): first = False, the
\* scroll, and the break when the document did not grow.
LegacyScroll(l, o) ==
    LET got == IF o.response = "page" THEN <<PageAt(l.srv, l.nextCursor)>>
               ELSE IF o.response = "verify" THEN <<Verify>>
               ELSE <<>>
        s == [l EXCEPT !.first = FALSE,
                       !.inbox = got,
                       !.nextCursor = IF o.response = "page" THEN @ + 1 ELSE @,
                       !.idle = IF LoadedPage(o) THEN @ ELSE @ + 1,
                       !.allLoaded = @ /\ LoadedPage(o)]
    IN  IF o.grows THEN s ELSE [s EXCEPT !.pc = "done", !.end = "height"]

\* One evaluation of the loop test and, when it holds, one pass of the
\* body (TikTokApi/api/user.py 153-227).
Legacy_Pass ==
    /\ legacy.pc = "loop"
    /\ \E o \in ScrollOutcomes :
        /\ IF LoadedPage(o) THEN TRUE
           ELSE IF o.grows THEN legacy.idle < MaxIdle
           ELSE TRUE
        /\ LET searched == IF legacy.first THEN LegacyFirst(legacy)
                           ELSE LegacySearch(legacy, legacy.inbox)
           IN  legacy' =
                 IF ~LegacyLoops(legacy.amount_yielded, legacy.count)
                 THEN [legacy EXCEPT !.pc = "done", !.end = "count"]
                 ELSE IF searched.pc = "done" THEN searched
                 ELSE LegacyScroll(searched, o)
    /\ UNCHANGED <<pagination, interceptor, pageWait, others, user, video, login>>

\* The caller of the generator after it ended.
Legacy_Ended ==
    /\ legacy.pc = "done"
    /\ legacy' = [legacy EXCEPT !.pc = "closed"]
    /\ UNCHANGED <<pagination, interceptor, pageWait, others, user, video, login>>

NextLegacy ==
    \/ Legacy_Pass
    \/ Legacy_Ended

SpecLegacy == InitLegacy /\ [][NextLegacy]_vars

(*************************** Search.search_type ****************************)
\* What the browser adds to the recorded responses for api/search: the
\* next page, a captcha denial (type 'verify'), a response without a body.
SearchArrivals == {"page", "verify", "empty"}

InitSearch ==
    /\ NoCall
    /\ collected = <<>>
    /\ pendingRequests = {}
    /\ fetchTasks = {}
    /\ results = <<>>
    /\ lastOp = NoOp
    /\ arrivals = 0
    /\ draining = NotDraining
    /\ page = NoPage
    /\ wait = NoWait
    /\ NoEntities
    /\ hashtag = NoEntity
    /\ replies = NoEntity
    /\ drag = NoEntity
    /\ finished = <<>>
    /\ \E srv \in SmallServers, c \in 1..MaxCount :
        search = [pc |-> "loop", srv |-> srv, count |-> c, amount_yielded |-> 0,
                  out |-> <<>>, nextCursor |-> 0, processed |-> 0, junk |-> 0,
                  inbox |-> <<>>, end |-> "none"]

\* The response the browser records next.
SearchResponse(s, a) ==
    IF a = "page" THEN PageAt(s.srv, s.nextCursor)
    ELSE IF a = "verify" THEN Verify
    ELSE Garbage

\* The browser receives a response for api/search and records it where
\* get_responses finds it (base.py 280-281); the page asks for the next
\* page once the last one arrived.  Responses of no use arrive at most
\* MaxJunk times.
Search_ResponseArrives ==
    /\ search.pc \in {"loop", "scrolled"}
    /\ search.inbox = <<>>
    /\ \E a \in SearchArrivals :
        /\ IF a = "page" THEN TRUE ELSE search.junk < MaxJunk
        /\ search' = [search EXCEPT
                        !.inbox = Append(@, SearchResponse(search, a)),
                        !.junk = IF a = "page" THEN @ ELSE @ + 1]
    /\ UNCHANGED <<pagination, interceptor, pageWait, entities, hashtag, replies, drag, finished>>

\* The for loop over the new responses (search.py 115-140): a response
\* without body and a 'verify' body are skipped, every result is yielded
\* and counted, has_more = 0 ends the call.
RECURSIVE SearchResponses(_, _)
SearchResponses(s, responses) ==
    IF responses = <<>> THEN s
    ELSE IF Head(responses).type # "page"
    THEN SearchResponses([s EXCEPT !.processed = @ + 1], Tail(responses))
    ELSE IF ~Head(responses).hasMore
    THEN [s EXCEPT !.processed = @ + 1,
                   !.amount_yielded = @ + Len(Head(responses).items),
                   !.out = @ \o Head(responses).items,
                   !.nextCursor = @ + 1,
                   !.pc = "done", !.end = "no_more"]
    ELSE SearchResponses([s EXCEPT !.processed = @ + 1,
                                   !.amount_yielded = @ + Len(Head(responses).items),
                                   !.out = @ \o Head(responses).items,
                                   !.nextCursor = @ + 1],
                         Tail(responses))

\* One evaluation of "while amount_yielded < count" and, when it holds,
\* the captcha check and the scrolls of the pass (search.py 105-110).
Search_Scroll ==
    /\ search.pc = "loop"
    /\ search' = IF ~(search.amount_yielded < search.count)
                 THEN [search EXCEPT !.pc = "done", !.end = "count"]
                 ELSE [search EXCEPT !.pc = "scrolled"]
    /\ UNCHANGED <<pagination, interceptor, pageWait, entities, hashtag, replies, drag, finished>>

\* The rest of the pass: the responses that are not in processed_urls are
\* read, then the loop test comes again (search.py 112-140).
Search_Read ==
    /\ search.pc = "scrolled"
    /\ search' = SearchResponses([search EXCEPT !.inbox = <<>>, !.pc = "loop"], search.inbox)
    /\ UNCHANGED <<pagination, interceptor, pageWait, entities, hashtag, replies, drag, finished>>

\* The caller of the generator after it ended.
Search_Ended ==
    /\ search.pc = "done"
    /\ search' = [search EXCEPT !.pc = "closed"]
    /\ UNCHANGED <<pagination, interceptor, pageWait, entities, hashtag, replies, drag, finished>>

NextSearch ==
    \/ Search_ResponseArrives
    \/ Search_Scroll
    \/ Search_Read
    \/ Search_Ended

\* The event loop keeps running the call and its caller; nothing obliges
\* the browser to receive a response.
SpecSearch ==
    /\ InitSearch
    /\ [][NextSearch]_vars
    /\ WF_vars(Search_Scroll)
    /\ WF_vars(Search_Read)
    /\ WF_vars(Search_Ended)

(******************* Hashtag._get_videos_api (hashtag.py) *******************)
\* What requests.get(...).json() makes of the answer (hashtag.py 180-184).
HashtagAnswers == {"page", "garbage"}

\* How many api/challenge/item_list responses of this challenge the list
\* read by get_responses (base.py 280-281) holds when the call starts.
HeldChallengeResponses == 0..MaxHeld

\* Hashtag._get_videos_api is called (hashtag.py 171-176): the buffered
\* api/challenge/item_list responses of this challenge are read once,
\* amount_yielded and cursor start at 0.
InitHashtag ==
    /\ NoCall
    /\ collected = <<>>
    /\ pendingRequests = {}
    /\ fetchTasks = {}
    /\ results = <<>>
    /\ lastOp = NoOp
    /\ arrivals = 0
    /\ draining = NotDraining
    /\ page = NoPage
    /\ wait = NoWait
    /\ NoEntities
    /\ search = NoEntity
    /\ replies = NoEntity
    /\ drag = NoEntity
    /\ finished = <<>>
    /\ \E srv \in SmallServers, c \in 1..MaxCount, held \in HeldChallengeResponses :
        hashtag = [pc |-> "while", srv |-> srv, count |-> c, responses |-> held,
                   i |-> 0, amount_yielded |-> 0, cursor |-> 0, out |-> <<>>,
                   requests |-> 0, end |-> "none"]

\* "while amount_yielded < count" (hashtag.py 177): when it holds the for
\* loop over the buffered responses starts.
Hashtag_While ==
    /\ hashtag.pc = "while"
    /\ hashtag' = IF ~(hashtag.amount_yielded < hashtag.count)
                  THEN [hashtag EXCEPT !.pc = "done", !.end = "count"]
                  ELSE [hashtag EXCEPT !.pc = "for", !.i = 1]
    /\ UNCHANGED <<pagination, interceptor, pageWait, entities, search, replies, drag, finished>>

\* One step of "for response in responses" (hashtag.py 178-192): past the
\* last response - at once when none is buffered - the while test comes
\* again; else the response is replayed with the cursor, a body that is not
\* JSON raises ApiFailedException, else the cursor is taken from the answer
\* and every video is counted and yielded.  The test of hasMore is
\* commented out (hashtag.py 194-198).
Hashtag_Request ==
    /\ hashtag.pc = "for"
    /\ \E a \in HashtagAnswers :
        hashtag' =
            IF hashtag.i > hashtag.responses
            THEN [hashtag EXCEPT !.pc = "while", !.i = 0]
            ELSE IF a = "garbage"
            THEN [hashtag EXCEPT !.pc = "done", !.end = "api_failed",
                                 !.requests = Min(@ + 1, MaxRequests)]
            ELSE LET r == PageAt(hashtag.srv, hashtag.cursor)
                 IN  [hashtag EXCEPT
                        !.cursor = r.cursor,
                        !.amount_yielded = @ + Len(r.items),
                        !.out = @ \o r.items,
                        !.requests = Min(@ + 1, MaxRequests),
                        !.i = @ + 1]
    /\ UNCHANGED <<pagination, interceptor, pageWait, entities, search, replies, drag, finished>>

\* The caller of the generator after it ended or raised.
Hashtag_Ended ==
    /\ hashtag.pc = "done"
    /\ hashtag' = [hashtag EXCEPT !.pc = "closed"]
    /\ UNCHANGED <<pagination, interceptor, pageWait, entities, search, replies, drag, finished>>

NextHashtag ==
    \/ Hashtag_While
    \/ Hashtag_Request
    \/ Hashtag_Ended

\* The event loop keeps running the call and its caller.
SpecHashtag ==
    /\ InitHashtag
    /\ [][NextHashtag]_vars
    /\ WF_vars(Hashtag_While)
    /\ WF_vars(Hashtag_Request)
    /\ WF_vars(Hashtag_Ended)

(************* User._get_videos_scroll against any server ******************)
\* The bodies a response drained in a scroll round may carry when seen ids
\* were yielded so far: a video not seen yet or one seen before, with
\* hasMore true or false, no video at all, or a body that is not JSON.
ScrollBodies(seen) ==
    {Page(<<Cardinality(seen) + 1>>, m, 0) : m \in BOOLEAN}
        \cup {Page(<<1>>, m, 0) : m \in BOOLEAN}
        \cup {Page(<<>>, m, 0) : m \in BOOLEAN}
        \cup {Garbage}

\* The api/post/item_list responses one scroll brings: none, one or two.
ScrollLoads(seen) ==
    {<<>>} \cup {<<Event("item_list", TRUE, b)>> : b \in ScrollBodies(seen)}
           \cup {<<Event("item_list", TRUE, b1), Event("item_list", TRUE, b2)>> :
                    b1 \in ScrollBodies(seen), b2 \in ScrollBodies(seen)}

\* _get_videos_scroll(count, seen_ids, amount_yielded) is entered
\* (user.py 518-528), as _get_videos_scraping calls it (user.py 401).
InitScroll ==
    /\ call = "videos"
    /\ count \in Counts
    /\ server = [n |-> 0, p |-> 1, lastMore |-> FALSE]
    /\ loggedIn = FALSE
    /\ usedApi = FALSE
    /\ asDictEmpty = FALSE
    /\ canNavigate = TRUE
    /\ requestCache = {}
    /\ browserCursor = 0
    /\ browserLoads = 0
    /\ pc = "videos_scroll"
    /\ cursor = 0
    /\ res = NoRes
    /\ idx = 0
    /\ remaining = count
    /\ \E k \in 0..1 :
        /\ amountYielded = k
        /\ seenIds = 1..k
        /\ out = [i \in 1..k |-> i]
        /\ scroll = [attempts |-> 0, noNew |-> 0, last |-> k, hasMore |-> TRUE,
                     tries |-> 0, rounds |-> 0]
    /\ processedUrls = {}
    /\ err = "none"
    /\ tier = "videos_scroll"
    /\ tierOut = <<>>
    /\ tierPages = <<>>
    /\ requests = <<>>
    /\ initial = NoInitial
    /\ scrapingTried = TRUE
    /\ replayVerifies = 0
    /\ collected = <<>>
    /\ pendingRequests = {}
    /\ fetchTasks = {}
    /\ results = <<>>
    /\ lastOp = NoOp
    /\ arrivals = 0
    /\ draining = NotDraining
    /\ page = NoPage
    /\ wait = NoWait
    /\ NoEntities
    /\ NoOthers

\* One round of the while loop (user.py 530-573) when the scroll brings any
\* of ScrollLoads; rounds counts the rounds performed.
Scroll_AnyRound ==
    /\ pc = "videos_scroll"
    /\ scroll.rounds <= max_scroll_attempts
    /\ \E loaded \in ScrollLoads(seenIds) :
        LET acc == ScrollFold([seen |-> seenIds, amount |-> amountYielded,
                               yielded |-> <<>>, pages |-> <<>>,
                               hasMore |-> scroll.hasMore, returned |-> FALSE],
                              DrainResults(collected \o loaded, "item_list"), remaining)
            end == ScrollRoundEnd(scroll, acc.amount, acc.hasMore)
        IN  /\ collected' = DrainRemaining(collected \o loaded, "item_list")
            /\ seenIds' = acc.seen
            /\ amountYielded' = acc.amount
            /\ out' = out \o acc.yielded
            /\ scroll' = IF acc.returned
                         THEN [scroll EXCEPT !.rounds = @ + 1]
                         ELSE [rounds |-> scroll.rounds + 1] @@ end.locals
            /\ pc' = IF acc.returned THEN "done"
                     ELSE IF end.goOn THEN "videos_scroll" ELSE "done"
    /\ UNCHANGED <<config, pendingRequests, fetchTasks, results, lastOp, arrivals,
                   draining, pageWait, entities, others, replayVerifies, requestCache,
                   browserCursor, browserLoads, cursor, res, idx, remaining,
                   processedUrls, err, tier, tierOut, tierPages, requests, initial,
                   scrapingTried>>

\* The caller of the generator after it ended.
Scroll_Ended ==
    /\ pc = "done"
    /\ pc' = "closed"
    /\ UNCHANGED <<config, interceptor, pageWait, entities, others, replayVerifies,
                   collected, requestCache, browserCursor, browserLoads, cursor, res,
                   idx, amountYielded, remaining, seenIds, processedUrls, scroll, out,
                   err, tier, tierOut, tierPages, requests, initial, scrapingTried>>

NextScroll ==
    \/ Scroll_AnyRound
    \/ Scroll_Ended

SpecScroll == InitScroll /\ [][NextScroll]_vars

(************ Video._get_comment_replies(_api) (video.py) ******************)
\* The two functions that fetch the replies of one comment: "api" is
\* _get_comment_replies_api (video.py 563-605), "replay" is
\* _get_comment_replies (video.py 431-487).
ReplyVariants == {"api", "replay"}

\* What the server answers to one reply request: no usable answer (the
\* request throws or returns nothing), or a body with some replies and
\* has_more 0 or 1.
ReplyAnswers ==
    {[ok |-> FALSE, replies |-> 0, has_more |-> 0]}
        \cup {[ok |-> TRUE, replies |-> n, has_more |-> m] :
                n \in 0..MaxPageSize, m \in 0..1}

\* A comment with reply_comment_total = total of which fetched replies are
\* in reply_comment (isNone: reply_comment is None) is handed to one of the
\* two functions; cached: request_cache holds 'comments'.
InitReplies ==
    /\ NoCall
    /\ collected = <<>>
    /\ pendingRequests = {}
    /\ fetchTasks = {}
    /\ results = <<>>
    /\ lastOp = NoOp
    /\ arrivals = 0
    /\ draining = NotDraining
    /\ page = NoPage
    /\ wait = NoWait
    /\ NoEntities
    /\ search = NoEntity
    /\ hashtag = NoEntity
    /\ drag = NoEntity
    /\ finished = <<>>
    /\ \E v \in ReplyVariants, total \in 0..MaxTotal, fetched \in 0..MaxTotal,
          none \in BOOLEAN, cached \in BOOLEAN :
        /\ fetched <= total
        /\ none => fetched = 0
        /\ v = "api" => cached
        /\ replies = [pc |-> IF cached THEN "loop" ELSE "done", variant |-> v,
                      total |-> total, fetched |-> fetched, isNone |-> none,
                      requests |-> 0, end |-> IF cached THEN "none" ELSE "no_cache"]

\* The comment after an answer with has_more = 1 (video.py 473-487,
\* 592-605): the replies are added to reply_comment and the number left to
\* fetch is computed again; _get_comment_replies takes len() of
\* reply_comment itself, which fails when it still is None.
AfterReplies(r, a) ==
    LET none == r.isNone /\ a.replies = 0
    IN  IF r.variant = "replay" /\ none
        THEN [r EXCEPT !.requests = @ + 1, !.pc = "done", !.end = "TypeError"]
        ELSE [r EXCEPT !.requests = @ + 1, !.fetched = @ + a.replies, !.isNone = none]

\* One evaluation of "while num_comments_to_fetch > 0" and, when it holds,
\* one request with its answer (video.py 441-487, 568-605).
Replies_Request ==
    /\ replies.pc = "loop"
    /\ replies.requests < MaxRequests
    /\ \E a \in ReplyAnswers :
        replies' =
            IF ~(replies.total - replies.fetched > 0)
            THEN [replies EXCEPT !.pc = "done", !.end = "fetched"]
            ELSE IF ~a.ok
            THEN [replies EXCEPT !.requests = @ + 1, !.pc = "done", !.end = "failed"]
            ELSE IF a.has_more # 1
            THEN [replies EXCEPT !.requests = @ + 1, !.fetched = @ + a.replies,
                                 !.isNone = replies.isNone /\ a.replies = 0,
                                 !.pc = "done", !.end = "no_more"]
            ELSE AfterReplies(replies, a)
    /\ UNCHANGED <<pagination, interceptor, pageWait, entities, search, hashtag, drag,
                   finished>>

\* The caller goes on with the next comment.
Replies_Ended ==
    /\ replies.pc = "done"
    /\ replies' = [replies EXCEPT !.pc = "closed"]
    /\ UNCHANGED <<pagination, interceptor, pageWait, entities, search, hashtag, drag,
                   finished>>

NextReplies ==
    \/ Replies_Request
    \/ Replies_Ended

SpecReplies == InitReplies /\ [][NextReplies]_vars

(********************* Base.solve_captcha (base.py) ************************)
\* captcha_data['mode'] (base.py 384-386): the two supported modes and one
\* that is not supported.
CaptchaModes == {"slide", "whirl", "3d"}

\* The widths, in pixels, of the slide bar and of its handle as the page
\* reports them (base.py 424-425); the handle is narrower than the bar.
BarWidths == {slide_button_width + 1, slide_bar_width}

HandleWidths == {slide_button_width}

\* PuzzleSolver.get_position (captcha_solver.py 231-240): the pixel column
\* of the best match, max_loc[0].
Columns == 0..MaxColumn

\* whirl_solver (captcha_solver.py 321-334): (resolution - best_angle) /
\* resolution for best_angle in range(resolution), as a fraction.
WhirlFractions == {[num |-> resolution - angle, den |-> resolution] : angle \in 0..(resolution - 1)}

\* solve_captcha is entered with an automatic solver (base.py 361-386).
InitDrag ==
    /\ NoCall
    /\ collected = <<>>
    /\ pendingRequests = {}
    /\ fetchTasks = {}
    /\ results = <<>>
    /\ lastOp = NoOp
    /\ arrivals = 0
    /\ draining = NotDraining
    /\ page = NoPage
    /\ wait = NoWait
    /\ NoEntities
    /\ search = NoEntity
    /\ hashtag = NoEntity
    /\ replies = NoEntity
    /\ finished = <<>>
    /\ \E mode \in CaptchaModes, bar \in BarWidths, handle \in HandleWidths :
        drag = [pc |-> "start", mode |-> mode, bar |-> bar, handle |-> handle,
                maxloc |-> [num |-> 0, den |-> 1],
                distance |-> [num |-> 0, den |-> 1], err |-> "none"]

\* CaptchaSolver._solve_captcha (captcha_solver.py 34-47): maxloc is the
\* pixel column for 'slide' and the fraction of a turn for 'whirl'; any
\* other mode raises CaptchaException before (base.py 385-386).
Captcha_Solve ==
    /\ drag.pc = "start"
    /\ \E col \in Columns, turn \in WhirlFractions :
        drag' = IF drag.mode = "slide"
                THEN [drag EXCEPT !.pc = "solved", !.maxloc = [num |-> col, den |-> 1]]
                ELSE IF drag.mode = "whirl"
                THEN [drag EXCEPT !.pc = "solved", !.maxloc = turn]
                ELSE [drag EXCEPT !.pc = "raised", !.err = "Captcha"]
    /\ UNCHANGED <<pagination, interceptor, pageWait, entities, search, hashtag, replies,
                   finished>>

\* distance_to_drag = bar_effective_width * solve['maxloc'] (base.py
\* 432-433), kept as a fraction.
DistanceToDrag(d) ==
    [num |-> (d.bar - d.handle) * d.maxloc.num, den |-> d.maxloc.den]

\* The mouse is pressed on the handle and moved by distance_to_drag
\* (base.py 420-461).
Captcha_Drag ==
    /\ drag.pc = "solved"
    /\ drag' = [drag EXCEPT !.pc = "dragged", !.distance = DistanceToDrag(drag)]
    /\ UNCHANGED <<pagination, interceptor, pageWait, entities, search, hashtag, replies,
                   finished>>

NextDrag ==
    \/ Captcha_Solve
    \/ Captcha_Drag

SpecDrag == InitDrag /\ [][NextDrag]_vars

(******************************** claims ***********************************)
AllOk(reqs) == \A i \in 1..Len(reqs) : reqs[i].outcome = "ok"

\* C1: within one User.videos call no video id is yielded twice, also when
\* the buffered item_list response consumed by _get_initial_videos and the
\* first page requested by _get_videos_api hold the same records.
C1_NoVideoIdYieldedTwice ==
    call = "videos" => NoDuplicates(out)

\* C2: in a 5-page User.videos fetch whose request for page 2 is answered
\* with a body of type 'verify', once the challenge is out of the way the
\* fetch goes on from the cursor that was being requested: what has been
\* yielded is at every moment the server's records in order, each once, with
\* no page skipped and no page yielded a second time.
C2_ResumesAtSameCursor ==
    ( /\ call = "videos"
      /\ usedApi
      /\ count = None
      /\ NumPages(server) = 5
      /\ Len(requests) = 2
      /\ requests[1].outcome = "ok"
      /\ requests[2] = [cursor |-> 1, outcome |-> "verify"]
      /\ err = "none" )
    => IsPrefix(out, AllRecords(server))

\* C3: an ApiFailedException reaches the caller of User.videos,
\* Video.comments or Video.related_videos only after the scraping tier has
\* been entered.
C3_ApiFailedOnlyAfterScraping ==
    err = "ApiFailed" => scrapingTried

\* The first direct request of User.videos failed with ApiFailedException
\* after the records of the initial page were yielded.
FirstRequestFailed ==
    /\ call = "videos"
    /\ initial.got
    /\ initial.videos # <<>>
    /\ Len(requests) >= 1
    /\ VideosApiCheck(requests[1].outcome) = "ApiFailed"

\* C4: if the very first direct request of _get_videos_api fails with
\* ApiFailedException after the initial page was yielded, the call goes on
\* with _get_videos_scraping, that failure is not raised to the caller, and
\* the output keeps the initial page's records as its prefix.
C4_FirstPageFailureFallsBack ==
    FirstRequestFailed =>
        /\ IsPrefix(initial.videos, out)
        /\ IF scrapingTried THEN TRUE
           ELSE pc = "videos_scrape_load" /\ err = "none"

C4_Witness ==
    /\ FirstRequestFailed
    /\ scrapingTried
    /\ pc = "done"
    /\ err = "none"
    /\ Len(out) > Len(initial.videos)

\* User.videos(count=100) with the user info taken from the API, against the
\* server of three pages of 35 and a page of 5, every request answered.
RockRun ==
    /\ call = "videos"
    /\ server = TheRock
    /\ count = DocCount
    /\ usedApi
    /\ AllOk(requests)

\* C5 as stated: that call yields exactly 110 records in server order and
\* issues exactly 4 page requests.
C5_Yields110In4Requests ==
    (RockRun /\ pc = "done") =>
        /\ out = AllRecords(TheRock)
        /\ Len(requests) = 4

\* C5 as amended: that call yields exactly the first 100 records in server
\* order and issues exactly 3 page requests; it ends inside page 3 and page 4
\* is never requested.
C5_Yields100In3Requests ==
    RockRun =>
        /\ Len(requests) <= 3
        /\ IsPrefix(out, AllRecords(TheRock))
        /\ pc = "done" => ( /\ out = Range(1, DocCount)
                            /\ Len(requests) = 3
                            /\ err = "none"
                            /\ MoreInPage(idx, res) )

C5_Witness ==
    /\ RockRun
    /\ pc = "done"
    /\ Len(out) = DocCount
    /\ Len(requests) = 3

\* User.videos(count = n), n >= 1, with no failure of the direct tier.
NoDirectFailure ==
    /\ call = "videos"
    /\ count # None
    /\ count >= 1
    /\ AllOk(requests)
    /\ err = "none"

\* C6: with count = n >= 1 and no failure of the direct tier User.videos
\* yields at most n records, ends as soon as the n-th record is yielded (in
\* the middle of a page, with no further request), and ends with fewer than
\* n only when the last page signalled that there are no more.
C6_AtMostCount ==
    NoDirectFailure =>
        /\ Len(out) <= count
        /\ Len(out) = count => pc = "done"
        /\ (pc = "done" /\ Len(out) < count /\ ~asDictEmpty) => ~res.hasMore

C6_Witness ==
    /\ NoDirectFailure
    /\ pc = "done"
    /\ Len(out) = count
    /\ Len(requests) >= 2
    /\ MoreInPage(idx, res)
    /\ res.hasMore

\* C7: after _get_initial_videos consumed the initial page, the first direct
\* request of User.videos carries the cursor that page reported.
C7_FirstRequestCarriesInitialCursor ==
    (call = "videos" /\ initial.got /\ Len(requests) >= 1)
        => requests[1].cursor = initial.cursor

PagingTiers ==
    {"videos_api", "videos_scroll", "comments_api", "comments_replay", "comments_scroll"}

\* C8: in every tier the yielded sequence is a subsequence of the
\* concatenation of the processed pages' item lists, pages in processing
\* order and items in server order: records are skipped, never reordered.
C8_YieldsInServerOrder ==
    tier \in PagingTiers => IsSubseq(tierOut, Concat(tierPages))

C8_Witness ==
    /\ tier \in {"videos_scroll", "comments_replay"}
    /\ Len(tierPages) >= 2
    /\ Len(tierOut) >= 2
    /\ Len(tierOut) < Len(Concat(tierPages))

\* C9: in _get_videos_api and _comments_api a request after the first is
\* issued only when every record of the page before it has been yielded and
\* the count was not reached inside that page, and it carries that page's
\* cursor.
C9_NoInterleaving ==
    (pc \in {"videos_api_request", "comments_api_request"} /\ tierPages # <<>>) =>
        /\ res = tierPages[Len(tierPages)]
        /\ tierOut = Concat(tierPages)
        /\ ~MoreInPage(idx, res)
        /\ cursor = res.cursor
        /\ ~CountReached(IF call = "videos" THEN remaining ELSE count, amountYielded)

C9_Witness ==
    /\ pc \in {"videos_api_request", "comments_api_request"}
    /\ Len(tierPages) >= 2
    /\ Len(tierOut) >= 3

EmptyFinal(r) == r.type = "page" /\ r.status = 0 /\ r.items = <<>> /\ ~r.hasMore

FirstPageEmptyFinal ==
    /\ tier \in {"videos_api", "comments_api"}
    /\ Len(requests) >= 1
    /\ requests[1].outcome = "ok"
    /\ tierPages # <<>>
    /\ EmptyFinal(tierPages[1])

\* C10: if the first page returned to _get_videos_api or _comments_api has
\* status 0, no items and a false has-more signal, the call ends with an
\* empty sequence, raises no error and has issued exactly one request.
C10_EmptyFirstPageEnds ==
    FirstPageEmptyFinal =>
        /\ pc = "done"
        /\ err = "none"
        /\ tierOut = <<>>
        /\ Len(requests) = 1

C10_Witness ==
    /\ FirstPageEmptyFinal
    /\ tier = "comments_api"
    /\ count >= 1
    /\ pc = "done"

\* The last direct request of User.videos or Video.comments was answered
\* with a body of type 'verify'.
VerifyAnswered ==
    /\ call \in {"videos", "comments"}
    /\ Len(requests) >= 1
    /\ requests[Len(requests)].outcome = "verify"

\* C11: a body of type 'verify' returned to _get_videos_api or _comments_api
\* is not read as a page: the tier ends with ApiFailedException, which does
\* not reach the caller, and the accessor goes on with its scraping tier.
C11_VerifyDemotesToScraping ==
    VerifyAnswered =>
        IF scrapingTried THEN tier # "none"
        ELSE /\ pc = IF call = "videos" THEN "videos_scrape_load" ELSE "comments_scrape_load"
             /\ err = "none"
             /\ Len(tierPages) = Len(requests) - 1

C11_Witness ==
    /\ VerifyAnswered
    /\ scrapingTried
    /\ tier \in {"videos_scroll", "comments_scroll"}
    /\ pc = "done"
    /\ err = "none"
    /\ Len(tierOut) >= 1

\* C12: in _get_api_comments a response of type 'verify' demotes the call to
\* _get_scroll_comments, and the request is not repeated with the same
\* cursor: after a 'verify' answer the scroll tier is running and no second
\* 'verify' answer is ever received by the replay loop.
C12_VerifyDemotesReplay ==
    replayVerifies >= 1 =>
        /\ tier = "comments_scroll"
        /\ replayVerifies = 1

\* The scroll tier used up its bound of unproductive attempts while the count
\* was not reached and the last page processed, if any, signalled more.
ScrollGaveUp ==
    /\ pc = "done"
    /\ IF tier = "videos_scroll"
       THEN /\ scroll.noNew >= NoNewVideosLimit
            /\ scroll.hasMore
            /\ ~(Truthy(remaining) /\ amountYielded >= remaining)
       ELSE /\ tier = "comments_scroll"
            /\ scroll.tries > ScrollTriesLimit
            /\ amountYielded < count
            /\ IF tierPages = <<>> THEN TRUE ELSE tierPages[Len(tierPages)].hasMore

\* C13: when _get_videos_scroll or _get_scroll_comments uses up its bound of
\* unproductive scroll attempts before the count is reached and before the
\* server signalled the end, the call ends with an error, not normally.
C13_ExhaustionIsAnError ==
    ScrollGaveUp => err # "none"

\* The typed errors of the package.
TypedErrors ==
    {"NotAvailable", "NoContent", "Captcha", "ApiFailed", "Timeout", "InvalidFormat", "Login"}

\* C14: every failure of a public paginated accessor reaches the caller as
\* one of the typed errors, never as a raw exception; in particular when
\* make_request returns None in _get_videos_api and when request_cache has no
\* 'comments' entry in _get_api_comments.
C14_OnlyTypedErrors ==
    err # "none" => err \in TypedErrors

\* The URL of a buffered event contains the pattern p.
UrlContains(ev, p) == IF p = "" THEN TRUE ELSE ev.kind = p

\* C15: process_pending_responses(p) returns exactly the events of the
\* buffer, as it is when the selection is made, whose URL contains p, in
\* buffer order, and leaves exactly the other events in the buffer in their
\* relative order.
C15_DrainIsExact ==
    lastOp.op = "drain" =>
        /\ IsSubseq(results, lastOp.buffer)
        /\ IsSubseq(collected, lastOp.buffer)
        /\ Len(results) + Len(collected) = Len(lastOp.buffer)
        /\ \A i \in 1..Len(results) : UrlContains(results[i], lastOp.pattern)
        /\ \A i \in 1..Len(collected) : ~UrlContains(collected[i], lastOp.pattern)

C15_Witness ==
    /\ lastOp.op = "drain"
    /\ lastOp.pattern = "item_list"
    /\ Len(results) >= 2
    /\ Len(collected) >= 1
    /\ lastOp.buffer[2].kind = "comment_list"

\* C16: when fetching the body throws in _fetch_response_body, nothing is
\* appended to the buffer, the buffer and the pending entries are as they
\* were, only the task itself is gone, and no error reaches any caller.
C16_FetchFailureIsSilent ==
    (lastOp.op = "fetch" /\ lastOp.outcome = "throw") =>
        /\ collected = lastOp.buffer
        /\ pendingRequests = lastOp.pending
        /\ fetchTasks = {t \in lastOp.tasks : t.id # lastOp.id}
        /\ err = "none"

C16_Witness ==
    /\ lastOp.op = "fetch"
    /\ lastOp.outcome = "throw"
    /\ Len(collected) >= 1
    /\ pendingRequests # {}

\* C17: the number of entries the interceptor holds (_collected_responses
\* plus _pending_requests) never exceeds a fixed bound, here MaxHeld, however
\* many tracked responses arrive unclaimed.
C17_HeldStaysBounded ==
    Cardinality(pendingRequests) + Len(collected) <= MaxHeld

\* The classification has gone past its captcha check.
PastCaptchaCheck == wait.pc \in {"checks", "poll", "polled", "returned", "paginating", "raised"}

UnavailableClassified ==
    /\ page.shape # "none"
    /\ page.unavailable
    /\ wait.pc \in {"raised", "returned", "paginating"}

CaptchaBlocks == WithCaptcha(page.site) /\ page.captcha \in {"stuck", "unsupported"}

C20_NeverReturnsHidden ==
    (page.shape # "none" /\ wait.pc \in {"returned", "paginating"}) =>
        IF ContentVisible(page, Slept(wait)) THEN TRUE
        ELSE Exhausted(page.site, wait.tries) = "reload" /\ page.reloadVisible

C22_PopupWithoutCloseContinues ==
    (/\ page.shape # "none"
     /\ page.popup = "stuck"
     /\ page.captcha = "none"
     /\ ~page.unavailable
     /\ ~page.empty
     /\ page.visibleAt = 0) => wait.pc # "raised"

\* C23: User.info_full attaches raw data of the same structure whether it
\* came from the direct API or from the page-embedded JSON: two User
\* objects of the same account that both completed info_full hold as_dict
\* with the same field set.
C23_SameFieldsFromApiAndScrape ==
    user.pc # "idle" =>
        \A o1 \in Objects, o2 \in Objects :
            (user.objs[o1].pc = "done" /\ user.objs[o2].pc = "done") =>
                DOMAIN user.objs[o1].asDict = DOMAIN user.objs[o2].asDict

\* The first tag of TagOrder among tags.
FirstPresent(tags) ==
    TagOrder[CHOOSE i \in DOMAIN TagOrder :
                /\ TagOrder[i] \in tags
                /\ \A j \in DOMAIN TagOrder : j < i => TagOrder[j] \notin tags]

\* C24: extract_tag_contents takes the first present of
\* __UNIVERSAL_DATA_FOR_REHYDRATION__, __NEXT_DATA__, SIGI_STATE, in that
\* order, and when none of them is present the extraction fails with
\* InvalidJSONException and with no other kind of error.
C24_FirstTagOrInvalidJSON ==
    user.pc # "idle" =>
        \A o \in Objects :
            user.objs[o].tag # "unread" =>
                IF user.objs[o].tags # {}
                THEN user.objs[o].tag = FirstPresent(user.objs[o].tags)
                ELSE user.objs[o].pc = "raised" /\ user.objs[o].exc = "InvalidJSON"

\* The statuses that mean "login required".
LoginStatuses == {StatusLogin, StatusLoginAlt}

\* C29: when User.info_full or User._get_videos_api is answered with
\* status 10101 or 209002, the call raises LoginException to the caller
\* without scraping if the session holds no login cookie, and falls back to
\* scraping if it holds one.
C29_LoginStatusRaisesOrFallsBack ==
    user.pc # "idle" =>
        /\ \A o \in Objects :
            (user.objs[o].asked /\ user.objs[o].statusCode \in LoginStatuses) =>
                IF loggedIn
                THEN IF user.objs[o].scraped THEN TRUE ELSE user.objs[o].pc = "scrape"
                ELSE /\ user.objs[o].pc = "raised"
                     /\ user.objs[o].exc = "Login"
                     /\ ~user.objs[o].scraped
        /\ (requests # <<>> /\ requests[1].outcome = "login") =>
                IF loggedIn
                THEN pc = "videos_scrape_load" /\ err = "none"
                ELSE pc = "done" /\ err = "Login"

C29_Witness ==
    /\ user.pc # "idle"
    /\ ~loggedIn
    /\ user.objs["u1"].statusCode = StatusLoginAlt
    /\ user.objs["u1"].exc = "Login"
    /\ requests # <<>>
    /\ requests[1].outcome = "login"
    /\ err = "Login"

\* C27: every login() that opened the login page and returned True has
\* called _refresh_api_tokens before returning, whichever way the login
\* was completed.
C27_RefreshBeforeTrue ==
    (login.pc = "done" /\ login.result = "True" /\ login.opened) =>
        login.refresh # "none"

\* No session cookie is in the browser when the call ends.
NoSessionCookie ==
    login.cookies \cap {"sessionid", "sid_tt", "sessionid_ss"} = {}

C25_ScrapedVideoHasAuthorObject ==
    (video.pc \in {"live", "raised"} /\ video.made = "scraping") =>
        /\ video.pc = "live"
        /\ video.exc = "none"
        /\ video.asDict.authorForm = "object"

\* C26: once a Video holds raw data, info() does not overwrite it: every
\* later call returns the data first attached, makes no API request and no
\* navigation.
C26_InfoKeepsAsDict ==
    (video.pc = "live" /\ video.held) =>
        /\ video.asDict = video.attached
        /\ video.calls >= 1 => video.returned = video.attached
        /\ video.requests = video.requestsThen
        /\ video.navigations = video.navigationsThen

C26_Witness ==
    /\ video.pc = "live"
    /\ video.held
    /\ video.made = "id"
    /\ video.calls = MaxInfoCalls
    /\ video.requests = 2
    /\ video.navigations = 1
    /\ video.returned = video.attached

\* The call has ended.
LegacyOver == legacy.pc \in {"done", "closed"}

\* C30: TikTokApi User.videos(count=c) yields whole responses and stops only
\* at a response boundary: when it has ended, the account has at least c
\* records and the profile page and every scroll loaded their page, it has
\* yielded at least c records, in server order, every record of each
\* response it processed, and fewer than c before the last response.
C30_CountIsPageGranularMinimum ==
    (LegacyOver /\ legacy.allLoaded /\ legacy.srv.n >= legacy.count) =>
        /\ Len(legacy.out) >= legacy.count
        /\ Len(legacy.out) = legacy.amount_yielded
        /\ IsPrefix(legacy.out, AllRecords(legacy.srv))
        /\ IF Len(legacy.out) = legacy.srv.n THEN TRUE
           ELSE Len(legacy.out) % legacy.srv.p = 0
        /\ Len(legacy.out) - legacy.srv.p < legacy.count

C30_Witness ==
    /\ LegacyOver
    /\ legacy.allLoaded
    /\ legacy.srv.n >= legacy.count
    /\ legacy.count = 3
    /\ legacy.srv.p = 2
    /\ Len(legacy.out) = 4
    /\ legacy.end = "count"

\* C31: Search.search_type terminates: also when the scrolls bring no new
\* matching response, fewer than count results were yielded and no
\* response signalled has_more = 0, the call eventually stops.
C31_SearchTerminates == <>(search.pc \in {"done", "closed"})

\* C32: Hashtag._get_videos_api terminates for every count >= 1: it ends
\* when a replayed page signals hasMore = false, and it ends or fails with
\* ApiFailedException when no challenge item_list response is buffered.
C32_HashtagApiTerminates == <>(hashtag.pc \in {"done", "closed"})

\* The request ids of the buffered responses, in buffer order.
RECURSIVE BufferedIds(_)
BufferedIds(buf) ==
    IF buf = <<>> THEN <<>> ELSE <<Head(buf).url>> \o BufferedIds(Tail(buf))

\* C33: the buffer keeps the responses in the order of their
\* loading-finished events: whenever A finished loading before B and both
\* bodies were fetched, A precedes B in _collected_responses.
C33_BufferInLoadingFinishedOrder == IsSubseq(BufferedIds(collected), finished)

\* The item_list responses of the buffer a drain found that carry the secUid
\* of the other user, whose call is interleaved with the draining one.
OthersDrained ==
    {i \in 1..Len(lastOp.buffer) :
        IF lastOp.buffer[i].kind = "item_list" THEN ~lastOp.buffer[i].own ELSE FALSE}

\* C34 as stated: a drain performed by one call leaves the item_list
\* responses that carry the other user's secUid in the buffer.
C34_DrainLeavesOthersResponses ==
    lastOp.op = "drain" =>
        \A i \in OthersDrained : \E j \in 1..Len(collected) : collected[j] = lastOp.buffer[i]

\* C34: calls for different users are not kept apart: a drain for item_list
\* hands the draining call every buffered item_list response, those that
\* carry the other user's secUid included, and none of them stays in the
\* buffer for the other call.
C34_DrainTakesOthersResponses ==
    (lastOp.op = "drain" /\ lastOp.pattern = "item_list") =>
        \A i \in OthersDrained :
            /\ \E j \in 1..Len(results) : results[j] = lastOp.buffer[i]
            /\ \A j \in 1..Len(collected) : collected[j] # lastOp.buffer[i]

C34_Witness ==
    /\ lastOp.op = "drain"
    /\ lastOp.pattern = "item_list"
    /\ OthersDrained # {}
    /\ \E i \in 1..Len(lastOp.buffer) :
        lastOp.buffer[i].kind = "item_list" /\ lastOp.buffer[i].own

\* A step in which process_pending_responses makes its selection.
Selecting == draining.asleep /\ ~draining'.asleep

\* What one step of the interceptor does to the tracked responses.
DrainedOnceStep ==
    /\ \A ev \in ToSet(collected) :
        IF Selecting /\ Matches(draining.pattern, ev)
        THEN ev \in ToSet(results') /\ ev \notin ToSet(collected')
        ELSE ev \in ToSet(collected')
    /\ IF Selecting
       THEN ToSet(results') \subseteq ToSet(collected) /\ NoDuplicates(results')
       ELSE results' = results
    /\ \A info \in fetchTasks \ fetchTasks' :
        lastOp'.outcome = "body" => \E ev \in ToSet(collected') : ev.url = info.id
    /\ NoDuplicates(BufferedIds(collected'))
    /\ \A ev \in ToSet(collected') :
        \A info \in fetchTasks' \cup pendingRequests' : info.id # ev.url

\* C35: under every interleaving of response-received events,
\* loading-finished events, body-fetch tasks and drains, a tracked response
\* whose body was fetched is buffered once, stays in the buffer until the
\* first selection whose pattern matches its URL, is returned by that drain
\* and removed, and can never be buffered again: none is returned twice and
\* none is lost, also when it is appended while a drain is asleep.
C35_EachResponseDrainedOnce == [][DrainedOnceStep]_vars

C35_Witness ==
    /\ lastOp.op = "fetch"
    /\ lastOp.outcome = "body"
    /\ draining.asleep
    /\ Len(collected) >= 2
    /\ Matches(draining.pattern, collected[Len(collected)])
    /\ draining.pattern # ""

\* C36: User.videos(count = n) yields at most n records in total, also when
\* the direct tier fails after having yielded k >= 1 records and the call
\* goes on with _get_videos_scraping.
C36_AtMostCountAcrossFallback ==
    (call = "videos" /\ count # None /\ count >= 1) => Len(out) <= count

\* C37: User._get_videos_scroll terminates whatever the responses hold: it
\* performs at most max_scroll_attempts (30) rounds, and it has stopped
\* after the round that was the NoNewVideosLimit-th (5th) in a row without
\* a new video and after a round whose last processed response signalled
\* hasMore false (has_more as the loop test reads it).
C37_ScrollStopsWithin30Rounds ==
    pc \in {"videos_scroll", "done", "closed"} =>
        /\ scroll.rounds <= max_scroll_attempts
        /\ scroll.noNew <= NoNewVideosLimit
        /\ pc = "videos_scroll" =>
            /\ scroll.rounds < max_scroll_attempts
            /\ scroll.noNew < NoNewVideosLimit
            /\ scroll.hasMore

C37_Witness ==
    /\ pc = "done"
    /\ scroll.rounds = max_scroll_attempts
    /\ scroll.hasMore
    /\ scroll.noNew < NoNewVideosLimit
    /\ Len(out) >= NoNewVideosLimit

\* C38: fetching the replies of one comment takes at most
\* reply_comment_total requests, whatever the server answers, also when it
\* keeps answering has_more = 1 with an empty list of replies.
C38_RequestsBoundedByTotal == replies.requests <= replies.total

\* C39: within one Video.comments call no comment id is yielded twice, also
\* when _comments_api fails after having yielded comments and
\* _comments_scraping takes over, and when _get_api_comments fails after
\* some pages and _get_scroll_comments takes over.
C39_NoCommentIdYieldedTwice == call = "comments" => NoDuplicates(out)

\* C40: in Base.solve_captcha the horizontal distance the handle is dragged
\* lies between 0 and the effective width of the slide bar (width of the
\* bar minus width of the handle), for 'slide' and for 'whirl'.
C40_DragWithinBar ==
    drag.pc = "dragged" =>
        /\ 0 <= drag.distance.num
        /\ drag.distance.num <= (drag.bar - drag.handle) * drag.distance.den

====
